---- MODULE Spec2Model ----
(***************************************************************************)
(* Model of the conversation flow manager (src/src/core/conversation_flow.py),*)
(* of the intelligent memory store (src/src/core/intelligent_memory.py), of  *)
(* the context manager (src/src/ai/context_manager.py) and of the real-time  *)
(* multimodal system (src/src/ai/realtime_multimodal_system.py).             *)
(*                                                                         *)
(* Texts are modelled as finite sets of phrases: `kw in text.lower()` is   *)
(* true when one of the phrases of the text, lower-cased, is the keyword.  *)
(* Arabic keywords of the source tables are written as ASCII tokens with   *)
(* the prefix ar_ (the tool chain reads ASCII strings only).               *)
(* Fractions are integers in hundredths (0.7 is 70).                       *)
(***************************************************************************)
EXTENDS Integers, Sequences, FiniteSets, TLC

VARIABLES
    gemma_integration,    \* conversation manager: generation service given (TRUE) or None
    memory_retrieval,     \* conversation manager: memory store given (TRUE) or None
    current_session,      \* ConversationFlowManager.current_session (NoSession = None)
    conversation_history, \* ConversationFlowManager.conversation_history
    started,              \* number of start_conversation_session calls so far (names the sessions)
    last,                 \* outcome of the last manager call, as the caller sees it
    clock,                \* the wall clock datetime.now() reads: last reading and resolution
    fn,                   \* arguments and result of the function under check (SpecNext, SpecRanking)
    store_gemma,          \* IntelligentMemoryRetrieval.gemma_integration given (TRUE) or None
    memory_database,      \* IntelligentMemoryRetrieval.memory_database, in insertion order
    association_graph,    \* IntelligentMemoryRetrieval.association_graph: id -> list of ids
    memory_clusters,      \* IntelligentMemoryRetrieval.memory_clusters, in insertion order
    retrieval_patterns,   \* IntelligentMemoryRetrieval.retrieval_patterns: id -> count
    context_history,      \* IntelligentMemoryRetrieval.context_history
    now,                  \* the clock, in instants (InstantsPerDay to a day)
    mem_last,             \* outcome of the last memory store call, as the caller sees it
    threads,              \* SpecConcurrent: each thread's call, position and locals
    context_manager,      \* the ContextManager object: current_session, conversation_history, metrics
    realtime,             \* the RealtimeMultimodalSystem object, its worker threads and its callbacks
    ai_last               \* outcome of the last context manager or real-time system call

convvars == <<gemma_integration, memory_retrieval, current_session, conversation_history, started,
              last, clock>>
storevars == <<memory_database, association_graph, memory_clusters, retrieval_patterns, context_history>>
memvars == <<store_gemma, memory_database, association_graph, memory_clusters, retrieval_patterns,
             context_history, now, mem_last>>
vars == <<gemma_integration, memory_retrieval, current_session, conversation_history, started, last,
          clock, fn, store_gemma, memory_database, association_graph, memory_clusters, retrieval_patterns,
          context_history, now, mem_last, threads, context_manager, realtime, ai_last>>
aivars == <<context_manager, realtime, ai_last>>

----------------------------------------------------------------------------
(* ConversationState, conversation_flow.py:14-24 *)
GREETING == "greeting"
ASSESSMENT == "assessment"
MEMORY_EXERCISE == "memory_exercise"
EMOTIONAL_SUPPORT == "emotional_support"
COGNITIVE_TRAINING == "cognitive_training"
MEDICATION_REMINDER == "medication_reminder"
FAMILY_INTERACTION == "family_interaction"
CRISIS_INTERVENTION == "crisis_intervention"
CLOSING == "closing"

ConversationState ==
    {GREETING, ASSESSMENT, MEMORY_EXERCISE, EMOTIONAL_SUPPORT, COGNITIVE_TRAINING,
     MEDICATION_REMINDER, FAMILY_INTERACTION, CRISIS_INTERVENTION, CLOSING}

NoSessionId == <<0, "None">>
NoSession == [session_id |-> NoSessionId]

----------------------------------------------------------------------------
(* Texts *)

\* str.lower() on the phrases used as inputs
Lower(w) ==
    CASE w = "HELP" -> "help"
      [] w = "Want To Die" -> "want to die"
      [] OTHER -> w

\* text.lower()
LowerText(text) == {Lower(w) : w \in text}

\* `kw in text.lower()`
Mentions(text, kw) == kw \in LowerText(text)

\* `a in b` for two words: equal, or a proper substring
SubstringPairs == {<<"ar_aila", "ar_alaila">>, <<"family", "families">>}
WordIn(a, b) == a = b \/ <<a, b>> \in SubstringPairs

\* any(kw in text.lower() for kw in table)
MentionsAny(text, table) == LowerText(text) \cap table # {}

\* An analysis text returned by the service is [words, numbers]: the phrases
\* it contains, and the numbers that follow the clarity word (in hundredths),
\* in order; the regex search at conversation_flow.py:253 yields the first.

----------------------------------------------------------------------------
(* Keyword tables of _parse_patient_analysis *)

emotional_indicators ==
    << <<"positive", {"ar_ijabi", "ar_saeid", "ar_murtah", "positive", "happy", "comfortable"}>>,
       <<"negative", {"ar_salbi", "ar_hazin", "ar_muktaib", "negative", "sad", "depressed"}>>,
       <<"anxious", {"ar_qalaq", "ar_mutawattir", "ar_khaif", "anxious", "worried", "fearful"}>>,
       <<"confused", {"ar_murtabik", "ar_mushawwash", "confused", "disoriented"}>>,
       <<"angry", {"ar_ghadib", "ar_munzaij", "angry", "frustrated"}>>,
       <<"neutral", {"ar_muhayid", "ar_adi", "neutral", "normal"}>> >>

crisis_indicators ==
    {"ar_azma", "ar_musaada", "ar_khatar", "ar_alam", "crisis", "help", "emergency", "pain",
     "ar_la_astatie", "ar_urid_an_amut", "can't", "want to die"}

topic_indicators ==
    << <<"family", {"ar_aila", "ar_usra", "ar_zawj", "ar_zawja", "ar_atfal", "family", "spouse", "children"}>>,
       <<"health", {"ar_sihha", "ar_dawa", "ar_tabib", "ar_marad", "health", "medicine", "doctor", "illness"}>>,
       <<"memory", {"ar_dhakira", "ar_tadhakkur", "ar_nisyan", "memory", "remember", "forget"}>>,
       <<"daily_activities", {"ar_akl", "ar_nawm", "ar_istihmam", "eat", "sleep", "shower", "daily"}>>,
       <<"emotions", {"ar_mashair", "ar_huzn", "ar_farah", "emotions", "feelings", "sad", "happy"}>> >>

Topics == {"family", "health", "memory", "daily_activities", "emotions"}

(* Keyword tables of _fallback_input_analysis *)
emotional_keywords ==
    << <<"positive", {"ar_saeid", "ar_jayyid", "ar_mumtaz", "ar_raie", "happy", "good", "great", "wonderful"}>>,
       <<"negative", {"ar_hazin", "ar_sayyi", "ar_taab", "sad", "bad", "tired", "difficult"}>>,
       <<"anxious", {"ar_qalaq", "ar_khaif", "ar_mutawattir", "worried", "afraid", "nervous"}>>,
       <<"confused", {"ar_murtabik", "ar_la_aarif", "confused", "don't know"}>> >>

complexity_indicators == {"ar_la_astatie", "ar_saab", "ar_mushkila", "can't", "difficult", "problem"}

\* for emotion, indicators in table.items(): first match wins, default neutral
RECURSIVE FirstMatch(_, _, _)
FirstMatch(table, text, i) ==
    IF i > Len(table) THEN "neutral"
    ELSE IF MentionsAny(text, table[i][2]) THEN table[i][1]
    ELSE FirstMatch(table, text, i + 1)

----------------------------------------------------------------------------
(* _parse_patient_analysis, conversation_flow.py:232-300 *)

\* cognitive clarity: default 0.7, the first number after the clarity word,
\* divided by 10 when it is greater than 1
ParsedClarity(ai_analysis) ==
    IF ai_analysis.numbers = <<>> THEN 70
    ELSE LET c == ai_analysis.numbers[1]
         IN  IF c > 100 THEN c \div 10 ELSE c

TopicsOf(input_text) ==
    {topic_indicators[i][1] : i \in {j \in 1..Len(topic_indicators) :
                                        MentionsAny(input_text, topic_indicators[j][2])}}

parse_patient_analysis(ai_analysis, input_text) ==
    LET cognitive_clarity == ParsedClarity(ai_analysis)
    IN  [emotional_tone |-> FirstMatch(emotional_indicators, ai_analysis.words, 1),
         cognitive_clarity |-> cognitive_clarity,
         cognitive_load |-> 100 - cognitive_clarity,
         crisis_detected |-> \E indicator \in crisis_indicators :
                                 Mentions(input_text, indicator) \/ Mentions(ai_analysis.words, indicator),
         topics_mentioned |-> TopicsOf(input_text),
         understanding_confidence |-> 80]

(* _fallback_input_analysis, conversation_flow.py:302-336 *)
fallback_input_analysis(input_text) ==
    LET cognitive_load == IF MentionsAny(input_text, complexity_indicators) THEN 70 ELSE 30
    IN  [emotional_tone |-> FirstMatch(emotional_keywords, input_text, 1),
         cognitive_clarity |-> 100 - cognitive_load,
         cognitive_load |-> cognitive_load,
         crisis_detected |-> FALSE,
         topics_mentioned |-> {},
         understanding_confidence |-> 60]

(* _analyze_patient_input, conversation_flow.py:183-230.  `reply` is what the
   service call does: RAISE, or the text it returns. *)
RAISE == [error |-> "Exception"]

analyze_patient_input(gemma, input_text, reply) ==
    IF gemma
    THEN IF reply = RAISE
         THEN fallback_input_analysis(input_text)
         ELSE parse_patient_analysis(reply, input_text)
    ELSE fallback_input_analysis(input_text)

----------------------------------------------------------------------------
(* _determine_conversation_state, conversation_flow.py:338-379 *)

\* a progression that leaves the path one state early
state_progression_short(s) ==
    CASE s = GREETING -> ASSESSMENT
      [] s = ASSESSMENT -> COGNITIVE_TRAINING
      [] s = COGNITIVE_TRAINING -> MEMORY_EXERCISE
      [] s = MEMORY_EXERCISE -> CLOSING
      [] OTHER -> s

\* a progression that sends the states off the path to Closing
state_progression_closing(s) ==
    CASE s = GREETING -> ASSESSMENT
      [] s = ASSESSMENT -> COGNITIVE_TRAINING
      [] s = COGNITIVE_TRAINING -> MEMORY_EXERCISE
      [] s = MEMORY_EXERCISE -> EMOTIONAL_SUPPORT
      [] s = EMOTIONAL_SUPPORT -> CLOSING
      [] OTHER -> CLOSING

\* the state_progression dict, conversation_flow.py:367-373
state_progression(s) ==
    CASE s = GREETING -> ASSESSMENT
      [] s = ASSESSMENT -> COGNITIVE_TRAINING
      [] s = COGNITIVE_TRAINING -> MEMORY_EXERCISE
      [] s = MEMORY_EXERCISE -> EMOTIONAL_SUPPORT
      [] s = EMOTIONAL_SUPPORT -> CLOSING
      [] OTHER -> s

\* the same tests with the family topic ahead of the health topic
determine_conversation_state_family_first(current_state, input_analysis, n_turns) ==
    LET topics == input_analysis.topics_mentioned
    IN  IF input_analysis.crisis_detected THEN CRISIS_INTERVENTION
        ELSE IF "memory" \in topics /\ current_state # MEMORY_EXERCISE THEN MEMORY_EXERCISE
        ELSE IF "emotions" \in topics /\ input_analysis.emotional_tone \in {"negative", "anxious"}
             THEN EMOTIONAL_SUPPORT
        ELSE IF "family" \in topics THEN FAMILY_INTERACTION
        ELSE IF "health" \in topics THEN MEDICATION_REMINDER
        ELSE IF input_analysis.cognitive_load > 70 THEN ASSESSMENT
        ELSE IF n_turns > 6 THEN state_progression(current_state)
        ELSE current_state

\* the same tests with the default progression from the fifth turn on
determine_conversation_state_eager(current_state, input_analysis, n_turns) ==
    LET topics == input_analysis.topics_mentioned
    IN  IF input_analysis.crisis_detected THEN CRISIS_INTERVENTION
        ELSE IF "memory" \in topics /\ current_state # MEMORY_EXERCISE THEN MEMORY_EXERCISE
        ELSE IF "emotions" \in topics /\ input_analysis.emotional_tone \in {"negative", "anxious"}
             THEN EMOTIONAL_SUPPORT
        ELSE IF "health" \in topics THEN MEDICATION_REMINDER
        ELSE IF "family" \in topics THEN FAMILY_INTERACTION
        ELSE IF input_analysis.cognitive_load > 70 THEN ASSESSMENT
        ELSE IF n_turns > 4 THEN state_progression(current_state)
        ELSE current_state

\* current_state is _get_current_state(), n_turns is len(current_session.turns)
determine_conversation_state(current_state, input_analysis, n_turns) ==
    LET topics == input_analysis.topics_mentioned
    IN  IF input_analysis.crisis_detected THEN CRISIS_INTERVENTION
        ELSE IF "memory" \in topics /\ current_state # MEMORY_EXERCISE THEN MEMORY_EXERCISE
        ELSE IF "emotions" \in topics /\ input_analysis.emotional_tone \in {"negative", "anxious"}
             THEN EMOTIONAL_SUPPORT
        ELSE IF "health" \in topics THEN MEDICATION_REMINDER
        ELSE IF "family" \in topics THEN FAMILY_INTERACTION
        ELSE IF input_analysis.cognitive_load > 70 THEN ASSESSMENT
        ELSE IF n_turns > 6 THEN state_progression(current_state)
        ELSE current_state

(* _get_current_state, conversation_flow.py:381-385 *)
get_current_state(session) ==
    IF session # NoSession /\ session.states_visited # <<>>
    THEN session.states_visited[Len(session.states_visited)]
    ELSE GREETING

(* _define_state_transitions, conversation_flow.py:801-843 *)
state_transitions(s) ==
    CASE s = GREETING -> {ASSESSMENT, EMOTIONAL_SUPPORT, MEMORY_EXERCISE}
      [] s = ASSESSMENT -> {COGNITIVE_TRAINING, EMOTIONAL_SUPPORT, MEMORY_EXERCISE}
      [] s = MEMORY_EXERCISE -> {EMOTIONAL_SUPPORT, COGNITIVE_TRAINING, FAMILY_INTERACTION}
      [] s = EMOTIONAL_SUPPORT -> {MEMORY_EXERCISE, FAMILY_INTERACTION, CLOSING}
      [] s = COGNITIVE_TRAINING -> {MEMORY_EXERCISE, ASSESSMENT, CLOSING}
      [] s = MEDICATION_REMINDER -> {EMOTIONAL_SUPPORT, CLOSING}
      [] s = FAMILY_INTERACTION -> {EMOTIONAL_SUPPORT, CLOSING}
      [] s = CRISIS_INTERVENTION -> {EMOTIONAL_SUPPORT, MEDICATION_REMINDER}
      [] s = CLOSING -> {}

----------------------------------------------------------------------------
(* Response generation *)

\* _generate_template_response, conversation_flow.py:477-529: the key of the
\* per-state template table the text is drawn from (templates.get(state, default))
template_key(state) ==
    IF state \in {GREETING, EMOTIONAL_SUPPORT, MEMORY_EXERCISE, COGNITIVE_TRAINING}
    THEN state ELSE "default"

\* a generation whose failure is not recovered by the template table
response_method_unrecovered(gemma, response_reply) ==
    IF gemma THEN "ai" ELSE "template"

\* _generate_adaptive_response / _generate_ai_response, conversation_flow.py:387-475:
\* the generation method of the response, given what the service call does
response_method(gemma, response_reply) ==
    IF gemma
    THEN IF response_reply = RAISE THEN "template" ELSE "ai"
    ELSE "template"

\* the memory store is consulted (conversation_flow.py:427) only on the service path
retrieval_attempted(gemma, memory, input_analysis) ==
    gemma /\ memory /\ input_analysis.topics_mentioned # {}

\* service calls made for one input: analysis, query analysis inside the memory
\* store, response generation (each call site is executed once, no retry)
service_calls(gemma, memory, store_service, input_analysis) ==
    [analysis |-> IF gemma THEN 1 ELSE 0,
     query |-> IF retrieval_attempted(gemma, memory, input_analysis) /\ store_service THEN 1 ELSE 0,
     generation |-> IF gemma THEN 1 ELSE 0]

NoCalls == [analysis |-> 0, query |-> 0, generation |-> 0]

----------------------------------------------------------------------------
(* IntelligentMemoryRetrieval, intelligent_memory.py.  A memory content is the
   set of its whitespace-separated words; strengths are in thousandths. *)

MemoryTypes == {"episodic", "semantic", "procedural"}

Min(a, b) == IF a < b THEN a ELSE b
Max(a, b) == IF a > b THEN a ELSE b

\* the ids of the stored memories, in dict order
Ids(db) == [i \in 1..Len(db) |-> db[i].id]
IdSet(db) == {db[i].id : i \in 1..Len(db)}
NodeOf(db, id) == db[CHOOSE i \in 1..Len(db) : db[i].id = id]

\* _extract_importance_score, intelligent_memory.py:196-240 (hundredths): the
\* first number after an importance pattern, clamped to [0, 1]; otherwise 0.5
\* plus 0.1 per importance keyword and 0.05 per emotional keyword, at most 1
importance_keywords == {"ar_muhimm", "ar_hamm", "ar_asasi", "ar_daruri", "ar_hayawi", "ar_awlawiyya",
                        "important", "essential", "critical", "vital", "significant"}
importance_emotional_keywords == {"ar_saeid", "ar_hazin", "ar_farah", "ar_ghadab", "ar_khawf", "ar_hubb",
                                  "ar_kurh", "happy", "sad", "joy", "anger", "fear", "love", "emotional"}

extract_importance_score(analysis) ==
    IF analysis.numbers # <<>>
    THEN Min(100, Max(0, analysis.numbers[1]))
    ELSE Min(100, 50 + 10 * Cardinality(LowerText(analysis.words) \cap importance_keywords)
                     + 5 * Cardinality(LowerText(analysis.words) \cap importance_emotional_keywords))

\* _calculate_simple_importance, intelligent_memory.py:242-281 (hundredths)
emotion_weights(e) ==
    CASE e \in {"ar_jiddan_ijabi", "very_positive"} -> 30
      [] e \in {"ar_ijabi", "positive"} -> 20
      [] e \in {"ar_salbi", "negative"} -> 10
      [] e \in {"ar_jiddan_salbi", "very_negative"} -> 20
      [] OTHER -> 0

important_words ==
    {"ar_aila", "ar_usra", "ar_zawj", "ar_zawja", "ar_atfal", "ar_walidayn",
     "family", "spouse", "children", "parents",
     "ar_amal", "ar_wazifa", "ar_mihna", "work", "job", "career",
     "ar_sihha", "ar_marad", "ar_dawa", "health", "medicine", "doctor"}

\* the sum of _calculate_simple_importance before min and max, intelligent_memory.py:245-279;
\* `word in content.lower()` finds a word inside a longer one
simple_importance_sum(content, length, emotional_context) ==
    50 + emotion_weights(emotional_context)
       + (IF length > 100 THEN 10 ELSE 0)
       + (IF length > 200 THEN 10 ELSE 0)
       + 5 * Cardinality({word \in important_words :
                             \E w \in LowerText(content) : WordIn(word, w)})

\* a heuristic that returns the sum as it is
calculate_simple_importance_unclamped(content, length, emotional_context) ==
    simple_importance_sum(content, length, emotional_context)

calculate_simple_importance(content, length, emotional_context) ==
    Min(100, Max(10, simple_importance_sum(content, length, emotional_context)))

\* _analyze_memory_importance, intelligent_memory.py:149-194: <<content, score>>;
\* on the service path the analysis text is appended to the content
analyze_memory_importance(gemma, input, reply) ==
    IF gemma /\ reply # RAISE
    THEN <<input.content \cup {"ar_tahlil", "ar_aldhikra:"} \cup reply.words,
           extract_importance_score(reply)>>
    ELSE <<input.content,
           calculate_simple_importance(input.content, input.length, input.emotional_context)>>

\* the MemoryNode built at intelligent_memory.py:72-87; `hashed` is the content
\* that the id is the hash of
new_memory_node(id, gemma, input, reply, today) ==
    LET analysed == analyze_memory_importance(gemma, input, reply)
    IN  [id |-> id, timestamp |-> today, content |-> analysed[1],
         memory_type |-> input.memory_type, tags |-> input.tags,
         has_media |-> input.has_media, emotional_context |-> input.emotional_context,
         importance_score |-> analysed[2], retrieval_count |-> 0, last_accessed |-> today,
         hashed |-> input.content]

RECURSIVE SumSeq(_)
SumSeq(q) == IF q = <<>> THEN 0 ELSE q[1] + SumSeq(Tail(q))

InstantsPerDay == 2    \* instants of the clock in one day

\* (t1 - t2).days of a timedelta: the whole days, rounded towards minus infinity
timedelta_days(t1, t2) == (t1 - t2) \div InstantsPerDay

\* _calculate_association_strength, intelligent_memory.py:497-528 (thousandths)
Abs(x) == IF x < 0 THEN -x ELSE x

\* the four terms added at intelligent_memory.py:502-526
association_terms(memory1, memory2) ==
    LET tag_term == IF memory1.tags # {} /\ memory2.tags # {}
                    THEN 200 * Cardinality(memory1.tags \cap memory2.tags) ELSE 0
        emotion_term == IF memory1.emotional_context = memory2.emotional_context THEN 300 ELSE 0
        time_diff == Abs(timedelta_days(memory1.timestamp, memory2.timestamp))
        time_term == IF time_diff < 7 THEN 300
                     ELSE IF time_diff < 30 THEN 200
                     ELSE IF time_diff < 365 THEN 100 ELSE 0
        words1 == LowerText(memory1.content)
        words2 == LowerText(memory2.content)
        content_term == IF words1 # {} /\ words2 # {}
                        THEN (300 * Cardinality(words1 \cap words2))
                                 \div Max(Cardinality(words1), Cardinality(words2))
                        ELSE 0
    IN  <<tag_term, emotion_term, time_term, content_term>>

calculate_association_strength(memory1, memory2) ==
    Min(SumSeq(association_terms(memory1, memory2)), 1000)

\* association_strength > 0.3 at intelligent_memory.py:493.  The strength is a
\* double: the sum 0.0 + 0.2 + 0.1 of one common tag and a distance of 30 to 364
\* days is 0.30000000000000004, which is above 0.3; every other sum of the four
\* terms compares with 0.3 as its decimal value does
above_association_threshold(memory1, memory2) ==
    \/ calculate_association_strength(memory1, memory2) > 300
    \/ association_terms(memory1, memory2) = <<200, 0, 100, 0>>

\* one iteration of the loop of _create_memory_associations, intelligent_memory.py:486-495
associate(graph, new_memory, existing_memory) ==
    IF existing_memory.id = new_memory.id THEN graph
    ELSE IF above_association_threshold(new_memory, existing_memory)
         THEN [graph EXCEPT ![new_memory.id] = Append(@, existing_memory.id),
                            ![existing_memory.id] = Append(@, new_memory.id)]
         ELSE graph

\* _create_memory_associations, intelligent_memory.py:483-495, from position i on
RECURSIVE create_memory_associations(_, _, _, _)
create_memory_associations(graph, db, new_memory, i) ==
    IF i > Len(db) THEN graph
    ELSE create_memory_associations(associate(graph, new_memory, db[i]), db, new_memory, i + 1)

\* cluster.memories holds the MemoryNode objects themselves: here the fields of
\* the object that no operation changes
member_of(memory) ==
    [id |-> memory.id, timestamp |-> memory.timestamp, content |-> memory.content,
     tags |-> memory.tags, emotional_context |-> memory.emotional_context]

\* _calculate_cluster_fit, intelligent_memory.py:560-571: the mean, as the pair
\* <<sum of the strengths, number of members>> (<<0, 1>> for an empty cluster)
calculate_cluster_fit(db, memory, cluster) ==
    IF cluster.memories = <<>> THEN <<0, 1>>
    ELSE <<SumSeq([k \in 1..Len(cluster.memories) |->
                     calculate_association_strength(memory, cluster.memories[k])]),
           Len(cluster.memories)>>

\* fit1 > fit2 on means given as <<sum, count>>
FitGreater(fit1, fit2) == fit1[1] * fit2[2] > fit2[1] * fit1[2]

\* an iteration that keeps the first cluster above the threshold
better_cluster_first(db, new_memory, clusters, i, best) ==
    LET fit_score == calculate_cluster_fit(db, new_memory, clusters[i])
    IN  IF best[1] = 0 /\ FitGreater(fit_score, <<500, 1>>)
        THEN <<i, fit_score>> ELSE best

\* one iteration of the loop at intelligent_memory.py:537-541: best is
\* <<position of the best cluster or 0, its fit>>.  The fits are compared as
\* fractions.  The fit to a cluster of one member is that one strength; the
\* strengths of decimal value 0.5 (0.2 + 0.3, 0.3 + 0.3 * 2/3 and
\* 0.3 + 0.1 + 0.3 * 1/3, added in the order of the code) are the double 0.5,
\* which is not above the threshold either
better_cluster(db, new_memory, clusters, i, best) ==
    LET fit_score == calculate_cluster_fit(db, new_memory, clusters[i])
    IN  IF FitGreater(fit_score, best[2]) /\ FitGreater(fit_score, <<500, 1>>)
        THEN <<i, fit_score>> ELSE best

RECURSIVE find_best_cluster(_, _, _, _, _)
find_best_cluster(db, new_memory, clusters, i, best) ==
    IF i > Len(clusters) THEN best
    ELSE find_best_cluster(db, new_memory, clusters, i + 1,
                           better_cluster(db, new_memory, clusters, i, best))

\* _recalculate_cluster_strength, intelligent_memory.py:573-588, as <<sum, pairs>>
recalculate_cluster_strength(db, memories) ==
    IF Len(memories) < 2 THEN <<1000, 1>>
    ELSE LET pairs == {<<i, j>> \in (1..Len(memories)) \X (1..Len(memories)) : i < j}
             strength(pr) == calculate_association_strength(memories[pr[1]], memories[pr[2]])
             RECURSIVE Total(_)
             Total(ps) == IF ps = {} THEN 0
                          ELSE LET pr == CHOOSE x \in ps : TRUE
                               IN  strength(pr) + Total(ps \ {pr})
         IN  <<Total(pairs), Cardinality(pairs)>>

\* memory_clusters[cluster_id] = new_cluster on an insertion-ordered dict
put_cluster(clusters, cluster) ==
    IF \E i \in 1..Len(clusters) : clusters[i].id = cluster.id
    THEN [i \in 1..Len(clusters) |-> IF clusters[i].id = cluster.id THEN cluster ELSE clusters[i]]
    ELSE Append(clusters, cluster)

\* the new cluster built at intelligent_memory.py:549-557
singleton_cluster(cluster_id, new_memory) ==
    [id |-> cluster_id, memories |-> <<member_of(new_memory)>>, strength |-> <<1000, 1>>]

\* best_cluster.memories.append(new_memory) and the strength update, 545-546
join_cluster(db, clusters, i, new_memory) ==
    LET members == Append(clusters[i].memories, member_of(new_memory))
    IN  [clusters EXCEPT ![i] = [@ EXCEPT !.memories = members,
                                          !.strength = recalculate_cluster_strength(db, members)]]

\* an update that opens a cluster for every memory
update_memory_clusters_apart(db, clusters, new_memory) ==
    put_cluster(clusters, singleton_cluster(Len(clusters), new_memory))

\* _update_memory_clusters, intelligent_memory.py:530-558
update_memory_clusters(db, clusters, new_memory) ==
    LET best == find_best_cluster(db, new_memory, clusters, 1, <<0, <<0, 1>>>>)
    IN  IF best[1] # 0
        THEN join_cluster(db, clusters, best[1], new_memory)
        ELSE put_cluster(clusters, singleton_cluster(Len(clusters), new_memory))

\* memory_database[memory_id] = memory_node on an insertion-ordered dict
put_memory(db, node) ==
    IF node.id \in IdSet(db)
    THEN [i \in 1..Len(db) |-> IF db[i].id = node.id THEN node ELSE db[i]]
    ELSE Append(db, node)

----------------------------------------------------------------------------
(* Retrieval.  A query is the set of its words; relevance scores are in units
   of 1/219000, which keeps every term of the sum an integer. *)

\* words of at most two characters (dropped by `len(word.strip()) > 2`)
ShortWords == {"my", "to", "ar_maa"}

Keywords(query) == query \ ShortWords

\* _simple_query_analysis, intelligent_memory.py:348-371
context_memory_mapping(context_type) ==
    CASE context_type \in {"personal", "family"} -> {"episodic"}
      [] context_type = "work" -> {"procedural", "semantic"}
      [] context_type = "general" -> {"episodic", "semantic", "procedural"}
      [] context_type = "health" -> {"semantic", "episodic"}
      [] OTHER -> {"episodic", "semantic"}

simple_query_analysis(query, context_type) ==
    [keywords |-> Keywords(query),
     memory_types |-> context_memory_mapping(context_type),
     emotional_context |-> "neutral"]

\* _extract_emotional_context, intelligent_memory.py:373-386
query_emotional_indicators ==
    << <<"positive", {"ar_ijabi", "ar_saeid", "ar_farah", "positive", "happy", "joy"}>>,
       <<"negative", {"ar_salbi", "ar_hazin", "ar_ghadab", "negative", "sad", "anger"}>>,
       <<"neutral", {"ar_muhayid", "ar_adi", "neutral", "normal"}>> >>

\* _parse_query_analysis, intelligent_memory.py:321-346
parse_query_analysis(analysis, original_query) ==
    LET named == (IF MentionsAny(analysis.words, {"ar_shakhsiyya", "ar_aila", "personal", "family"})
                  THEN {"episodic"} ELSE {})
                 \cup (IF MentionsAny(analysis.words, {"ar_amaliyya", "ar_mahara", "procedural", "skill"})
                       THEN {"procedural"} ELSE {})
                 \cup (IF MentionsAny(analysis.words, {"ar_amma", "ar_maalumat", "semantic", "general"})
                       THEN {"semantic"} ELSE {})
    IN  [keywords |-> Keywords(original_query),
         memory_types |-> IF named = {} THEN MemoryTypes ELSE named,
         emotional_context |-> FirstMatch(query_emotional_indicators, analysis.words, 1)]

\* _analyze_query_context, intelligent_memory.py:290-319
analyze_query_context(gemma, query, context_type, reply) ==
    IF gemma /\ reply # RAISE
    THEN parse_query_analysis(reply, query)
    ELSE simple_query_analysis(query, context_type)

\* a test that asks for every keyword of the query
is_candidate_by_all_keywords(memory, query_analysis) ==
    /\ memory.memory_type \in query_analysis.memory_types
    /\ \A keyword \in query_analysis.keywords :
           \/ \E w \in memory.content : WordIn(Lower(keyword), Lower(w))
           \/ \E tag \in memory.tags : WordIn(Lower(keyword), Lower(tag))

\* the test of one memory in _get_candidate_memories, intelligent_memory.py:421-435
is_candidate(memory, query_analysis) ==
    /\ memory.memory_type \in query_analysis.memory_types
    /\ \/ query_analysis.keywords = {}
       \/ \E keyword \in query_analysis.keywords :
             \/ \E w \in memory.content : WordIn(Lower(keyword), Lower(w))
             \/ \E tag \in memory.tags : WordIn(Lower(keyword), Lower(tag))

\* _get_candidate_memories, intelligent_memory.py:414-437: positions in dict order
get_candidate_memories(db, query_analysis) ==
    SelectSeq([i \in 1..Len(db) |-> i], LAMBDA i : is_candidate(db[i], query_analysis))

\* the terms added by _calculate_memory_relevance, intelligent_memory.py:444-479
relevance_terms(memory, query_analysis, include_multimodal, today) ==
    LET keywords == query_analysis.keywords
        keyword_matches == Cardinality({k \in keywords :
                                \E w \in memory.content : WordIn(Lower(k), Lower(w))})
        tag_matches == Cardinality({kt \in keywords \X memory.tags : WordIn(Lower(kt[1]), Lower(kt[2]))})
        days_old == timedelta_days(today, memory.timestamp)
    IN  << IF keywords # {} THEN (87600 * keyword_matches) \div Cardinality(keywords) ELSE 0,
           IF memory.tags # {} THEN Min(21900 * tag_matches, 43800) ELSE 0,
           657 * memory.importance_score,
           Max(0, 60 * (365 - days_old)),
           Min(2190 * memory.retrieval_count, 21900),
           IF include_multimodal /\ memory.has_media THEN 21900 ELSE 0,
           IF query_analysis.emotional_context = memory.emotional_context THEN 21900 ELSE 0 >>

\* _calculate_memory_relevance, intelligent_memory.py:439-481: the exact sum
calculate_memory_relevance(memory, query_analysis, include_multimodal, today) ==
    SumSeq(relevance_terms(memory, query_analysis, include_multimodal, today))

\* The score is a double.  Two exact sums that differ are at least 1/219000
\* apart and their doubles are in the same order.  Two equal exact sums are the
\* same double when they were added up from the same terms (and the same
\* importance, which the content and the emotional context determine);
\* otherwise the doubles may differ in the last place, either way.
same_double(memory1, memory2, query_analysis, include_multimodal, today) ==
    /\ relevance_terms(memory1, query_analysis, include_multimodal, today)
         = relevance_terms(memory2, query_analysis, include_multimodal, today)
    /\ memory1.content = memory2.content
    /\ memory1.emotional_context = memory2.emotional_context

\* the last places the doubles of the candidates may take: err[k] orders the
\* candidates whose exact sums are equal
rounding_errors(db, candidates, query_analysis, include_multimodal, today) ==
    LET n == Len(candidates)
        score(k) == calculate_memory_relevance(db[candidates[k]], query_analysis,
                                               include_multimodal, today)
        same(k, l) == same_double(db[candidates[k]], db[candidates[l]], query_analysis,
                                  include_multimodal, today)
        exact(k) == \A l \in 1..n : score(k) = score(l) => same(k, l)
    IN  IF \A k \in 1..n : exact(k)
        THEN {[k \in 1..n |-> 0]}
        ELSE {err \in [1..n -> 0..(n - 1)] :
                 /\ \A k \in 1..n : exact(k) => err[k] = 0
                 /\ \A k, l \in 1..n : same(k, l) => err[k] = err[l]}

\* scored_memories.sort(key=(score, timestamp), reverse=True) on keys
\* <<exact sum, last place, timestamp>>: a stable sort, entries with equal
\* keys keep their order
KeyGreater(k1, k2) ==
    \/ k1[1] > k2[1]
    \/ k1[1] = k2[1] /\ k1[2] > k2[2]
    \/ k1[1] = k2[1] /\ k1[2] = k2[2] /\ k1[3] > k2[3]

\* a ranking that leaves the candidates in the order of the database
sort_unsorted(scored) == [k \in 1..Len(scored) |-> scored[k][1]]

\* scored: a sequence of <<item, key>>
RECURSIVE sort_descending(_)
sort_descending(scored) ==
    IF scored = <<>> THEN <<>>
    ELSE LET first == CHOOSE i \in 1..Len(scored) :
                          /\ \A j \in 1..Len(scored) : ~KeyGreater(scored[j][2], scored[i][2])
                          /\ \A j \in 1..(i - 1) : KeyGreater(scored[i][2], scored[j][2])
             rest == [j \in 1..(Len(scored) - 1) |-> IF j < first THEN scored[j] ELSE scored[j + 1]]
         IN  <<scored[first][1]>> \o sort_descending(rest)

\* scored_memories[:max_results], intelligent_memory.py:131; a negative
\* max_results leaves that many entries off the end
slice_to(ranked, max_results) ==
    IF max_results >= 0 THEN SubSeq(ranked, 1, Min(max_results, Len(ranked)))
    ELSE SubSeq(ranked, 1, Max(0, Len(ranked) + max_results))

\* the positions selected by retrieve_contextual_memories, intelligent_memory.py:116-131,
\* when the doubles end in err
select_memories(db, candidates, query_analysis, max_results, include_multimodal, today, err) ==
    LET scored == [k \in 1..Len(candidates) |->
                      <<candidates[k],
                        <<calculate_memory_relevance(db[candidates[k]], query_analysis,
                                                     include_multimodal, today),
                          err[k],
                          db[candidates[k]].timestamp>> >>]
    IN  slice_to(sort_descending(scored), max_results)

\* the selections the doubles allow
selections(db, candidates, query_analysis, max_results, include_multimodal, today) ==
    {select_memories(db, candidates, query_analysis, max_results, include_multimodal, today, err) :
        err \in rounding_errors(db, candidates, query_analysis, include_multimodal, today)}

\* the update of the retrieval statistics, intelligent_memory.py:134-137
touch_memories(db, selected, today) ==
    [i \in 1..Len(db) |->
        IF \E k \in 1..Len(selected) : selected[k] = i
        THEN [db[i] EXCEPT !.retrieval_count = @ + 1, !.last_accessed = today]
        ELSE db[i]]

\* retrieve_contextual_memories, intelligent_memory.py:104-147: the positions
\* it may return
retrieved(gemma, db, query, context_type, max_results, include_multimodal, reply, today) ==
    LET query_analysis == analyze_query_context(gemma, query, context_type, reply)
    IN  selections(db, get_candidate_memories(db, query_analysis), query_analysis,
                   max_results, include_multimodal, today)

----------------------------------------------------------------------------
(* Suggestions and statistics *)

\* the score of one memory in _match_ai_suggestions_with_memories,
\* intelligent_memory.py:645-655, in tenths: 0.1 for every keyword found in the
\* content, 0.2 for every tag that holds a keyword
ai_suggestion_score(memory, suggestion_keywords) ==
    Cardinality({keyword \in suggestion_keywords :
                    \E w \in memory.content : WordIn(Lower(keyword), Lower(w))})
    + 2 * Cardinality({tag \in memory.tags :
                          \E keyword \in suggestion_keywords : WordIn(Lower(keyword), Lower(tag))})

\* the positions a ranking keeps: scored is a sequence of <<position, score>>,
\* the sort is stable and descending
top_suggestions(scored, limit) ==
    slice_to(sort_descending([k \in 1..Len(scored) |->
                                 <<scored[k][1], <<scored[k][2], 0, 0>> >>]), limit)

\* _match_ai_suggestions_with_memories, intelligent_memory.py:631-666.  The
\* score is a double and relevance_score > 0.3 holds from three tenths on:
\* 0.1 + 0.1 + 0.1 and 0.1 + 0.2 are both 0.30000000000000004
match_ai_suggestions_with_memories(db, ai_suggestions) ==
    LET suggestion_keywords == Keywords(ai_suggestions.words)
        matching == SelectSeq([i \in 1..Len(db) |-> i],
                              LAMBDA i : ai_suggestion_score(db[i], suggestion_keywords) >= 3)
    IN  top_suggestions([k \in 1..Len(matching) |->
                            <<matching[k], ai_suggestion_score(db[matching[k]], suggestion_keywords)>>],
                        3)

RECURSIVE ProductSeq(_)
ProductSeq(q) == IF q = <<>> THEN 1 ELSE q[1] * ProductSeq(Tail(q))

\* _get_similarity_based_suggestions, intelligent_memory.py:668-690: the
\* similarities overlap / max(...) are compared as fractions, each brought to
\* the product of all the denominators
get_similarity_based_suggestions(db, context, max_suggestions) ==
    LET context_words == LowerText(context)
        memory_words(i) == LowerText(db[i].content)
        overlap(i) == Cardinality(context_words \cap memory_words(i))
        longest(i) == Max(Cardinality(context_words), Cardinality(memory_words(i)))
        similar == SelectSeq([i \in 1..Len(db) |-> i],
                             LAMBDA i : longest(i) > 0 /\ 10 * overlap(i) > longest(i))
        denominators == ProductSeq([k \in 1..Len(similar) |-> longest(similar[k])])
    IN  top_suggestions([k \in 1..Len(similar) |->
                            <<similar[k],
                              (overlap(similar[k]) * denominators) \div longest(similar[k])>>],
                        max_suggestions)

\* get_memory_suggestions, intelligent_memory.py:603-629: the positions of the
\* suggested memories
get_memory_suggestions(gemma, db, context, max_suggestions, reply) ==
    IF gemma /\ reply # RAISE
    THEN match_ai_suggestions_with_memories(db, reply)
    ELSE get_similarity_based_suggestions(db, context, max_suggestions)

\* get_memory_statistics, intelligent_memory.py:796-835: total_memories,
\* clusters, associations and total_retrievals of the report
get_memory_statistics(db, graph, clusters) ==
    IF db = <<>> THEN <<>>
    ELSE << Len(db),
            Len(clusters),
            SumSeq([k \in 1..Len(db) |-> Len(graph[db[k].id])]) \div 2,
            SumSeq([k \in 1..Len(db) |-> db[k].retrieval_count]) >>

----------------------------------------------------------------------------
(* IntelligentMemoryRetrieval operations *)

MaxMemories == 5       \* memory ids in use

MemIds == 1..MaxMemories

\* _generate_memory_id, intelligent_memory.py:283-288: the hash of the content
\* and of the reading of the clock; a new reading gives a fresh id
generate_memory_id(db) == Len(db) + 1

\* the ids the call may get: on a clock that advances between two readings a
\* fresh one; on a coarse clock the reading may be the one of an earlier call
\* of the same instant, and with the same content the hash is the same
memory_ids(db, content, today, resolution) ==
    {generate_memory_id(db)}
    \cup (IF resolution = "coarse"
          THEN {db[i].id : i \in {j \in 1..Len(db) : db[j].hashed = content
                                                      /\ db[j].timestamp = today}}
          ELSE {})

\* the in-memory effect of store_multimodal_memory, intelligent_memory.py:64-96
stored(db, graph, clusters, gemma, input, reply, today, memory_id) ==
    LET memory_node == new_memory_node(memory_id, gemma, input, reply, today)
        db1 == put_memory(db, memory_node)
    IN  [id |-> memory_node.id,
         db |-> db1,
         graph |-> create_memory_associations(graph, db1, memory_node, 1),
         clusters |-> update_memory_clusters(db1, clusters, memory_node)]

\* store_multimodal_memory, intelligent_memory.py:56-102, with
\* _save_memory_database, 744-794.  `disk` is what the file system does: "ok",
\* "write_error" (raised inside the try block and logged) or "mkdir_error"
\* (raised by os.makedirs at line 748, before the try block).
store_multimodal_memory(input, reply, disk) ==
    \E memory_id \in memory_ids(memory_database, input.content, now, clock.resolution) :
    \E s \in {stored(memory_database, association_graph, memory_clusters,
                     store_gemma, input, reply, now, memory_id)} :
        /\ memory_database' = s.db
        /\ association_graph' = s.graph
        /\ memory_clusters' = s.clusters
        /\ mem_last' = [op |-> "store",
                        raised |-> IF disk = "mkdir_error" THEN "OSError" ELSE "none",
                        returned |-> IF disk = "mkdir_error" THEN <<>> ELSE <<s.id>>,
                        saved |-> disk = "ok"]
        /\ UNCHANGED <<store_gemma, retrieval_patterns, context_history, now>>

\* retrieve_contextual_memories, intelligent_memory.py:104-147
retrieve_contextual_memories(query, context_type, max_results, include_multimodal, reply) ==
    \E selected \in retrieved(store_gemma, memory_database, query, context_type,
                              max_results, include_multimodal, reply, now) :
    \E ids \in {[k \in 1..Len(selected) |-> memory_database[selected[k]].id]} :
        /\ memory_database' = touch_memories(memory_database, selected, now)
        /\ retrieval_patterns' =
               [id \in MemIds |-> IF \E k \in 1..Len(ids) : ids[k] = id
                                  THEN retrieval_patterns[id] + 1
                                  ELSE retrieval_patterns[id]]
        /\ context_history' = Append(context_history,
                                     [context_type |-> context_type, retrieved_memories |-> ids])
        /\ mem_last' = [op |-> "retrieve", raised |-> "none", returned |-> ids, saved |-> FALSE]
        /\ UNCHANGED <<store_gemma, association_graph, memory_clusters, now>>

\* get_memory_suggestions, intelligent_memory.py:603-629
memory_suggestions(context, max_suggestions, reply) ==
    /\ mem_last' = [op |-> "suggest", raised |-> "none",
                    returned |-> LET suggested == get_memory_suggestions(store_gemma, memory_database,
                                                                         context, max_suggestions, reply)
                                 IN  [k \in 1..Len(suggested) |-> memory_database[suggested[k]].id],
                    saved |-> FALSE]
    /\ UNCHANGED <<store_gemma, storevars, now>>

\* get_memory_statistics, intelligent_memory.py:796-835
memory_statistics ==
    /\ mem_last' = [op |-> "statistics", raised |-> "none",
                    returned |-> get_memory_statistics(memory_database, association_graph,
                                                       memory_clusters),
                    saved |-> FALSE]
    /\ UNCHANGED <<store_gemma, storevars, now>>

----------------------------------------------------------------------------
(* ConversationFlowManager operations *)

Patients == {"A", "B"}

\* datetime.now(): a reading of the wall clock after the reading t.  A clock
\* whose resolution is finer than the time between two readings has advanced;
\* a coarse one may still show the same instant.
ClockReadings(t) == IF clock.resolution = "coarse" THEN {t, t + 1} ELSE {t + 1}

\* conversation_history holds the session objects themselves: an entry that is
\* the live session object changes with it
shared_history(history, before, after) ==
    [i \in 1..Len(history) |->
        IF history[i].session_id = before.session_id THEN after ELSE history[i]]

\* a start that leaves the opening turn out
start_conversation_session_silent(patient_id) ==
    /\ current_session' =
           [session_id |-> <<started + 1, patient_id>>,
            patient_id |-> patient_id,
            ended |-> FALSE,
            turns |-> <<>>,
            states_visited |-> <<GREETING>>]
    /\ started' = started + 1
    /\ last' = [op |-> "start", raised |-> "none", response |-> "none", calls |-> NoCalls]
    /\ UNCHANGED <<gemma_integration, memory_retrieval, conversation_history, clock>>
    /\ UNCHANGED memvars

\* start_conversation_session, conversation_flow.py:76-112
start_conversation_session(patient_id) ==
    /\ \E timestamp \in ClockReadings(clock.time) :
          /\ current_session' =
                 [session_id |-> <<started + 1, patient_id>>,
                  patient_id |-> patient_id,
                  ended |-> FALSE,
                  turns |-> <<[speaker |-> "assistant", timestamp |-> timestamp]>>,
                  states_visited |-> <<GREETING>>]
          /\ clock' = [clock EXCEPT !.time = timestamp]
    /\ started' = started + 1
    /\ last' = [op |-> "start", raised |-> "none", response |-> "none", calls |-> NoCalls]
    /\ UNCHANGED <<gemma_integration, memory_retrieval, conversation_history>>
    /\ UNCHANGED memvars

\* process_patient_input, conversation_flow.py:114-181
process_patient_input(input_text, analysis_reply, query_reply, response_reply) ==
    IF current_session = NoSession
    THEN /\ last' = [op |-> "process", raised |-> "ValueError", response |-> "none", calls |-> NoCalls]
         /\ UNCHANGED <<gemma_integration, memory_retrieval, current_session,
                        conversation_history, started, clock>>
         /\ UNCHANGED memvars
    ELSE \E input_analysis \in {analyze_patient_input(gemma_integration, input_text, analysis_reply)} :
         \E current_state \in {get_current_state(current_session)} :
         \E new_state \in {determine_conversation_state(current_state, input_analysis,
                                                         Len(current_session.turns))} :
         \E start_time \in ClockReadings(clock.time) :
         \E reply_time \in ClockReadings(start_time) :
         LET visited == IF new_state # current_state
                        THEN Append(current_session.states_visited, new_state)
                        ELSE current_session.states_visited
             method == response_method(gemma_integration, response_reply)
             patient_turn == [speaker |-> "patient", timestamp |-> start_time]
             ai_turn == [speaker |-> "assistant", timestamp |-> reply_time]
         IN  /\ current_session' =
                    [current_session EXCEPT
                        !.states_visited = visited,
                        !.turns = Append(Append(current_session.turns, patient_turn), ai_turn)]
             /\ last' = [op |-> "process", raised |-> "none",
                         response |-> IF method = "ai" THEN "generated" ELSE template_key(new_state),
                         calls |-> service_calls(gemma_integration, memory_retrieval, store_gemma,
                                                 input_analysis)]
             /\ IF retrieval_attempted(gemma_integration, memory_retrieval, input_analysis)
                THEN retrieve_contextual_memories(input_text, "therapeutic", 2, TRUE, query_reply)
                ELSE UNCHANGED memvars
             /\ clock' = [clock EXCEPT !.time = reply_time]
             /\ conversation_history' =
                    shared_history(conversation_history, current_session, current_session')
             /\ UNCHANGED <<gemma_integration, memory_retrieval, started>>

\* end_conversation_session, conversation_flow.py:684-713, with
\* _save_conversation_session, 715-757.  `disk` is what the file system does:
\* "ok", "write_error" (raised inside the try block and logged) or
\* "mkdir_error" (raised by os.makedirs, before the try block).
DiskOutcomes == {"ok", "write_error", "mkdir_error"}

\* an end that records an entry in history also when no session is live
end_conversation_session_recording(disk) ==
    IF current_session = NoSession
    THEN /\ last' = [op |-> "end", raised |-> "none", response |-> "error", calls |-> NoCalls]
         /\ conversation_history' = Append(conversation_history, NoSession)
         /\ UNCHANGED <<gemma_integration, memory_retrieval, current_session, started, clock>>
         /\ UNCHANGED memvars
    ELSE LET closed == [current_session EXCEPT !.ended = TRUE]
         IN  /\ conversation_history' =
                    Append(shared_history(conversation_history, current_session, closed), closed)
             /\ current_session' = IF disk = "mkdir_error" THEN closed ELSE NoSession
             /\ last' = [op |-> "end",
                         raised |-> IF disk = "mkdir_error" THEN "OSError" ELSE "none",
                         response |-> IF disk = "mkdir_error" THEN "none" ELSE "summary",
                         calls |-> NoCalls]
             /\ UNCHANGED <<gemma_integration, memory_retrieval, started, clock>>
             /\ UNCHANGED memvars

end_conversation_session(disk) ==
    IF current_session = NoSession
    THEN /\ last' = [op |-> "end", raised |-> "none", response |-> "error", calls |-> NoCalls]
         /\ UNCHANGED <<gemma_integration, memory_retrieval, current_session,
                        conversation_history, started, clock>>
         /\ UNCHANGED memvars
    ELSE LET closed == [current_session EXCEPT !.ended = TRUE]
         IN  /\ conversation_history' =
                    Append(shared_history(conversation_history, current_session, closed), closed)
             /\ current_session' = IF disk = "mkdir_error" THEN closed ELSE NoSession
             /\ last' = [op |-> "end",
                         raised |-> IF disk = "mkdir_error" THEN "OSError" ELSE "none",
                         response |-> IF disk = "mkdir_error" THEN "none" ELSE "summary",
                         calls |-> NoCalls]
             /\ UNCHANGED <<gemma_integration, memory_retrieval, started, clock>>
             /\ UNCHANGED memvars

----------------------------------------------------------------------------
(* Inputs *)

MaxWords == 1          \* phrases in one patient input (Spec)
MaxInputs == 2         \* inputs processed in one session (Spec)
MaxDeepInputs == 5     \* inputs processed in one session (SpecDeep)
MaxStarts == 2         \* sessions started (SpecSessions)
MaxSessionInputs == 1  \* inputs processed in one session (SpecSessions)
MaxFnTurns == 8        \* length of the turn list (SpecNext)
MaxRecoveryInputs == 2 \* inputs processed in one session (SpecRecovery)

\* phrases a patient input is made of: one or two per keyword table, phrases in
\* several tables ("can't", "sad"), upper-case spellings, and one in no table
Vocabulary ==
    {"want to die", "ar_urid_an_amut", "HELP", "can't", "remember", "feelings", "sad",
     "doctor", "family", "sleep", "problem", "hello"}

InputTexts == {t \in SUBSET Vocabulary : Cardinality(t) <= MaxWords}

\* analysis texts the service may return: at most one phrase of the emotion and
\* crisis tables, and the number after the clarity word (0.2, 20) if any
AnalysisWords == {"negative", "crisis"}

AnalysisTexts ==
    [words : {w \in SUBSET AnalysisWords : Cardinality(w) <= 1},
     numbers : {<<>>, <<20>>, <<2000>>}]

SomeText == [words |-> {}, numbers |-> <<>>]

\* the narrow alphabet of the long-session and several-session specifications
FewTexts == {{"hello"}, {"want to die"}, {"sad"}, {"doctor"}}
FewAnalysisTexts == {SomeText, [words |-> {"negative"}, numbers |-> <<>>]}

Replies(texts) == IF gemma_integration THEN {RAISE} \cup texts ELSE {RAISE}

\* what the query analysis call of the memory store does, when the store is
\* given and holds a service
QueryReplies == IF memory_retrieval /\ store_gemma THEN {RAISE, SomeText} ELSE {RAISE}

----------------------------------------------------------------------------
(* The context manager, context_manager.py.  A dict is a record; a key that a
   dict may lack is a field that holds Absent.  The data of a memory recall is
   "correct" ({'correct': True}), "wrong" ({'correct': False}), "unmarked" (a
   dict without the key) or "text" (a value that is not a dict). *)

Absent == "absent"

\* the session dict built at context_manager.py:12-25; clear_context builds it
\* without the multimodal keys (context_manager.py:101-108)
new_context_session(reading, multimodal) ==
    [session_id |-> reading, start_time |-> reading,
     interactions |-> <<>>, mood_indicators |-> <<>>, memory_performance |-> <<>>,
     topics_discussed |-> <<>>,
     multimodal_interactions |-> IF multimodal THEN <<>> ELSE Absent,
     end_time |-> Absent, summary |-> Absent]

\* ContextManager.__init__, context_manager.py:9-36, no context file
NewContextManager ==
    [current_session |-> new_context_session(0, TRUE),
     conversation_history |-> <<>>,
     multimodal_usage |-> 0,
     saved |-> Absent]

\* list[-n:]
LastN(list, n) == SubSeq(list, Max(1, Len(list) - n + 1), Len(list))

\* dict[key] = value on an insertion-ordered dict of <<key, value>> pairs
put_item(dict, key, value) ==
    IF \E i \in 1..Len(dict) : dict[i][1] = key
    THEN [i \in 1..Len(dict) |-> IF dict[i][1] = key THEN <<key, value>> ELSE dict[i]]
    ELSE Append(dict, <<key, value>>)

\* the lists and dicts of a session that a copy of the session dict shares with it
SharedKeys == {"interactions", "mood_indicators", "memory_performance", "topics_discussed"}

\* an entry of conversation_history is [session, shared]: the copy made by
\* current_session.copy() at context_manager.py:125 and the keys under which
\* the copy still holds the very objects of the current session.  A change
\* made in place to such an object shows in the copy.
in_place(cm) ==
    LET seen(entry) ==
            [entry EXCEPT
                !.session.interactions =
                    IF "interactions" \in entry.shared THEN cm.current_session.interactions ELSE @,
                !.session.mood_indicators =
                    IF "mood_indicators" \in entry.shared THEN cm.current_session.mood_indicators ELSE @,
                !.session.memory_performance =
                    IF "memory_performance" \in entry.shared
                    THEN cm.current_session.memory_performance ELSE @,
                !.session.topics_discussed =
                    IF "topics_discussed" \in entry.shared
                    THEN cm.current_session.topics_discussed ELSE @]
    IN  [cm EXCEPT !.conversation_history = [i \in 1..Len(@) |-> seen(@[i])]]

\* the keys given are bound to new objects in the current session, or the
\* current session is a new dict
unshare(cm, keys) ==
    [cm EXCEPT !.conversation_history =
        [i \in 1..Len(@) |-> [@[i] EXCEPT !.shared = @ \ keys]]]

\* the statements of add_context, context_manager.py:62-79
add_context_to_session(cm, context_type, data, timestamp) ==
    LET session == cm.current_session
        n == Len(session.interactions)
    IN  IF context_type = "user_input"
        THEN [cm EXCEPT !.current_session.interactions =
                 Append(@, [timestamp |-> timestamp, user_input |-> data,
                            response_generated |-> FALSE, ai_response |-> Absent])]
        ELSE IF context_type = "ai_response"
        THEN IF n > 0
             THEN [cm EXCEPT !.current_session.interactions[n].ai_response = data,
                             !.current_session.interactions[n].response_generated = TRUE]
             ELSE cm
        ELSE IF context_type = "memory_recall"
        THEN [cm EXCEPT !.current_session.memory_performance = put_item(@, timestamp, data)]
        ELSE IF context_type = "mood_indicator"
        THEN [cm EXCEPT !.current_session.mood_indicators =
                 Append(@, [timestamp |-> timestamp, type |-> context_type, data |-> data])]
        ELSE IF context_type = "topic"
        THEN IF \E i \in 1..Len(session.topics_discussed) : session.topics_discussed[i] = data
             THEN cm
             ELSE [cm EXCEPT !.current_session.topics_discussed = Append(@, data)]
        ELSE cm

\* add_context, context_manager.py:54-79; `timestamp` is the reading of the clock
add_context(cm, context_type, data, timestamp) ==
    in_place(add_context_to_session(cm, context_type, data, timestamp))

\* the number of the positions of the list whose entry is in the set
CountIn(list, set) == Cardinality({i \in 1..Len(list) : list[i] \in set})

\* _analyze_mood_trend, context_manager.py:161-175
analyze_mood_trend(session) ==
    IF session.mood_indicators = <<>> THEN "neutral"
    ELSE LET recent == LastN(session.mood_indicators, 3)
             recent_moods == [i \in 1..Len(recent) |-> recent[i].data]
             positive_count == CountIn(recent_moods, {"happy", "content", "engaged"})
             negative_count == CountIn(recent_moods, {"sad", "confused", "frustrated"})
         IN  IF positive_count > negative_count THEN "positive"
             ELSE IF negative_count > positive_count THEN "negative"
             ELSE "neutral"

\* _analyze_memory_performance, context_manager.py:177-190: the dict returned, or
\* the exception raised by recall.get on a value that has no such method.  The
\* success rate is the pair <<correct recalls, total recalls>>.
analyze_memory_performance(session) ==
    LET performance == session.memory_performance
        recalls == [i \in 1..Len(performance) |-> performance[i][2]]
        correct_recalls == CountIn(recalls, {"correct"})
        total_recalls == Len(performance)
    IN  IF performance = <<>> THEN [raised |-> "none", returned |-> [status |-> "no_data"]]
        ELSE IF CountIn(recalls, {"text"}) > 0
        THEN [raised |-> "AttributeError", returned |-> Absent]
        ELSE [raised |-> "none",
              returned |-> [status |-> IF 10 * correct_recalls > 7 * total_recalls
                                       THEN "good" ELSE "needs_attention",
                            success_rate |-> <<correct_recalls, total_recalls>>,
                            total_attempts |-> total_recalls]]

\* a read that consumes the topics it reports
get_current_context_consuming(cm) ==
    [cm |-> [cm EXCEPT !.current_session.topics_discussed = <<>>],
     raised |-> "none",
     returned |-> [recent_topics |-> LastN(cm.current_session.topics_discussed, 5)]]

\* get_current_context, context_manager.py:81-89: the object after the call, the
\* exception raised and the dict returned; session_info is the session dict
\* itself
get_current_context(cm) ==
    LET session == cm.current_session
        memory_performance == analyze_memory_performance(session)
    IN  IF memory_performance.raised # "none"
        THEN [cm |-> cm, raised |-> memory_performance.raised, returned |-> Absent]
        ELSE [cm |-> cm, raised |-> "none",
              returned |-> [session_info |-> session,
                            recent_topics |-> LastN(session.topics_discussed, 5),
                            mood_trend |-> analyze_mood_trend(session),
                            memory_performance |-> memory_performance.returned,
                            interaction_count |-> Len(session.interactions)]]

\* update_context, context_manager.py:91-93: dict.update with the keys of
\* new_context, a list of <<key, value>> pairs
RECURSIVE update_context(_, _)
update_context(cm, new_context) ==
    IF new_context = <<>> THEN cm
    ELSE LET key == new_context[1][1]
             value == new_context[1][2]
             updated == IF key = "topics_discussed"
                        THEN [cm EXCEPT !.current_session.topics_discussed = value]
                        ELSE IF key = "mood_indicators"
                        THEN [cm EXCEPT !.current_session.mood_indicators = value]
                        ELSE IF key = "memory_performance"
                        THEN [cm EXCEPT !.current_session.memory_performance = value]
                        ELSE IF key = "interactions"
                        THEN [cm EXCEPT !.current_session.interactions = value]
                        ELSE cm
         IN  update_context(unshare(updated, {key}), Tail(new_context))

\* _summarize_memory_performance, context_manager.py:202-205
summarize_memory_performance(session) ==
    LET perf == analyze_memory_performance(session)
    IN  IF perf.raised # "none" THEN perf ELSE [raised |-> "none", returned |-> perf.returned.status]

MaxHistory == 50       \* sessions kept in the history, context_manager.py:128

\* save_context_to_memory, context_manager.py:110-131, with _save_context, 49-52:
\* the object after the call and the exception raised.  The end time is set
\* before the summary is computed; `disk` is "ok" or "write_error" (open or
\* json.dump raises, after the session was appended).
save_context_to_memory(cm, end_time, disk) ==
    LET ended == [cm EXCEPT !.current_session.end_time = end_time]
        perf == summarize_memory_performance(ended.current_session)
    IN  IF perf.raised # "none" THEN [cm |-> ended, raised |-> perf.raised]
        ELSE LET summarized ==
                     [ended.current_session EXCEPT !.summary =
                         [duration_minutes |-> end_time - ended.current_session.start_time,
                          total_interactions |-> Len(ended.current_session.interactions),
                          topics_count |-> Len(ended.current_session.topics_discussed),
                          mood_summary |-> analyze_mood_trend(ended.current_session),
                          memory_performance_summary |-> perf.returned]]
                 history == LastN(Append(cm.conversation_history,
                                         [session |-> summarized, shared |-> SharedKeys]),
                                  MaxHistory)
             IN  IF disk = "ok"
                 THEN [cm |-> [cm EXCEPT !.current_session = summarized,
                                         !.conversation_history = history,
                                         !.saved = [i \in 1..Len(history) |-> history[i].session]],
                       raised |-> "none"]
                 ELSE [cm |-> [cm EXCEPT !.current_session = summarized,
                                         !.conversation_history = history],
                       raised |-> "OSError"]

\* clear_context, context_manager.py:95-108: nothing is cleared when the save
\* raises
clear_context(cm, end_time, disk, reading) ==
    LET saving == save_context_to_memory(cm, end_time, disk)
    IN  IF saving.raised # "none" THEN saving
        ELSE [cm |-> [unshare(saving.cm, SharedKeys) EXCEPT
                         !.current_session = new_context_session(reading, FALSE)],
              raised |-> "none"]

\* add_multimodal_interaction, context_manager.py:261-273.  The class defines no
\* _get_timestamp (the name occurs at context_manager.py:266 only), so the
\* attribute lookup raises before anything is appended.
add_multimodal_interaction(cm, interaction_type, content) ==
    [cm |-> cm, raised |-> "AttributeError"]

----------------------------------------------------------------------------
(* The real-time multimodal system, realtime_multimodal_system.py *)

None == "None"

\* RealtimeMultimodalSystem.__init__, realtime_multimodal_system.py:18-38, with
\* the worker threads started so far and the calls made to the callbacks
NewSystem ==
    [is_processing |-> FALSE, session_active |-> FALSE, current_modalities |-> {},
     text_buffer |-> "", image_path |-> None, audio_path |-> None,
     on_response |-> None, on_error |-> None,
     workers |-> <<>>, responses |-> <<>>, errors |-> <<>>]

AiIdle == [op |-> "init", raised |-> "none", returned |-> Absent]

\* start_session, realtime_multimodal_system.py:40-45: the flag is set before
\* the context is cleared
start_session(system, cm, end_time, disk, reading) ==
    LET cleared == clear_context(cm, end_time, disk, reading)
    IN  [system |-> [system EXCEPT !.session_active = TRUE],
         cm |-> cleared.cm,
         raised |-> cleared.raised,
         returned |-> IF cleared.raised = "none" THEN TRUE ELSE Absent]

\* end_session, realtime_multimodal_system.py:47-54
end_session(system, cm, end_time, disk) ==
    IF system.session_active
    THEN LET saving == save_context_to_memory(cm, end_time, disk)
         IN  [system |-> [system EXCEPT !.session_active = FALSE],
              cm |-> saving.cm,
              raised |-> saving.raised,
              returned |-> IF saving.raised = "none" THEN TRUE ELSE Absent]
    ELSE [system |-> system, cm |-> cm, raised |-> "none", returned |-> FALSE]

\* process_text, realtime_multimodal_system.py:56-65
process_text(system, text) ==
    IF ~system.session_active
    THEN [system |-> system, returned |-> FALSE]
    ELSE [system |-> [system EXCEPT !.text_buffer = text,
                                    !.current_modalities = @ \cup {"text"}],
          returned |-> TRUE]

\* process_image, realtime_multimodal_system.py:67-76; `exists` is what
\* os.path.exists answers for the path
process_image(system, image_path, exists) ==
    IF ~system.session_active \/ ~exists
    THEN [system |-> system, returned |-> FALSE]
    ELSE [system |-> [system EXCEPT !.image_path = image_path,
                                    !.current_modalities = @ \cup {"image"}],
          returned |-> TRUE]

\* a worker thread at the first statement of _process_multimodal
new_worker == [pc |-> "start", prompt |-> Absent, response |-> Absent, error |-> Absent]

\* generate_response, realtime_multimodal_system.py:101-116
generate_response(system, callback) ==
    IF ~system.session_active
    THEN [system |-> system, returned |-> FALSE]
    ELSE IF system.is_processing
    THEN [system |-> system, returned |-> FALSE]
    ELSE [system |-> [system EXCEPT !.is_processing = TRUE,
                                    !.on_response = callback,
                                    !.workers = Append(@, new_worker)],
          returned |-> TRUE]

\* _reset_buffers, realtime_multimodal_system.py:175-180
reset_buffers(system) ==
    [system EXCEPT !.text_buffer = "", !.image_path = None, !.audio_path = None,
                   !.current_modalities = {}]

\* _process_multimodal, realtime_multimodal_system.py:121-133: the prompt and
\* the context; an exception of get_current_context leads to the handler
process_multimodal_prepare(system, cm, w) ==
    LET got == get_current_context(cm)
    IN  IF got.raised # "none"
        THEN [system EXCEPT !.workers[w].pc = "except", !.workers[w].error = got.raised]
        ELSE [system EXCEPT !.workers[w].pc = "prompted",
                            !.workers[w].prompt = IF system.text_buffer # ""
                                                  THEN system.text_buffer ELSE "ar_tahlil"]

\* realtime_multimodal_system.py:136-140: the call of the generation service,
\* which returns a text or raises
process_multimodal_generate(system, w, reply) ==
    IF reply.raised # "none"
    THEN [system EXCEPT !.workers[w].pc = "except", !.workers[w].error = reply.raised]
    ELSE [system EXCEPT !.workers[w].pc = "generated", !.workers[w].response = reply.returned]

\* realtime_multimodal_system.py:143-165: the interaction is recorded, the
\* response is spoken, the buffers are reset and the callback, if one was
\* given, is called with the response; an exception of
\* add_multimodal_interaction leads to the handler before any of the rest
process_multimodal_deliver(system, cm, w) ==
    LET response == system.workers[w].response
        added == add_multimodal_interaction(cm, "multimodal_response",
                     [text_input |-> system.text_buffer, image_path |-> system.image_path,
                      audio_path |-> system.audio_path, response |-> response,
                      modalities |-> system.current_modalities])
    IN  IF added.raised # "none"
        THEN [system |-> [system EXCEPT !.workers[w].pc = "except",
                                        !.workers[w].error = added.raised],
              cm |-> added.cm]
        ELSE [system |-> [reset_buffers(system) EXCEPT
                             !.workers[w].pc = "finally",
                             !.responses = IF system.on_response # None
                                           THEN Append(@, response) ELSE @],
              cm |-> added.cm]

\* the except clause, realtime_multimodal_system.py:167-171
process_multimodal_except(system, w) ==
    [system EXCEPT !.workers[w].pc = "finally",
                   !.errors = IF system.on_error # None
                              THEN Append(@, system.workers[w].error) ELSE @]

\* the finally clause, realtime_multimodal_system.py:172-173
process_multimodal_finally(system, w) ==
    [system EXCEPT !.workers[w].pc = "done", !.is_processing = FALSE]

IdleAssistant ==
    /\ context_manager = NewContextManager
    /\ realtime = NewSystem
    /\ ai_last = AiIdle

----------------------------------------------------------------------------
(* Specifications of the conversation manager *)

FineClock == [time |-> 0, resolution |-> "fine"]

Idle == [op |-> "init", raised |-> "none", response |-> "none", calls |-> NoCalls]
MemIdle == [op |-> "init", raised |-> "none", returned |-> <<>>, saved |-> FALSE]

NoThreads == [phase |-> "unused"]

\* IntelligentMemoryRetrieval.__init__, intelligent_memory.py:45-54, no database file
EmptyStore ==
    /\ memory_database = <<>>
    /\ association_graph = [id \in MemIds |-> <<>>]
    /\ memory_clusters = <<>>
    /\ retrieval_patterns = [id \in MemIds |-> 0]
    /\ context_history = <<>>
    /\ now = 0
    /\ mem_last = MemIdle

NoFn == [phase |-> "unused"]

InitManager ==
    /\ gemma_integration \in BOOLEAN
    /\ memory_retrieval \in BOOLEAN
    /\ current_session = NoSession
    /\ conversation_history = <<>>
    /\ started = 0
    /\ last = Idle
    /\ clock = FineClock
    /\ fn = NoFn
    /\ store_gemma = gemma_integration
    /\ EmptyStore
    /\ threads = NoThreads
    /\ IdleAssistant

\* inputs processed in the live session
Inputs == IF current_session = NoSession THEN 0 ELSE (Len(current_session.turns) - 1) \div 2

StartUpTo(maxStarts) ==
    /\ started < maxStarts
    /\ \E p \in Patients : start_conversation_session(p)
    /\ UNCHANGED <<fn, threads, aivars>>

ProcessFrom(texts, analyses, maxInputs) ==
    /\ Inputs < maxInputs
    /\ \E t \in texts, a \in Replies(analyses), q \in QueryReplies, r \in Replies({SomeText}) :
           process_patient_input(t, a, q, r)
    /\ UNCHANGED <<fn, threads, aivars>>

EndSession ==
    /\ Len(conversation_history) <= started
    /\ \E d \in DiskOutcomes : end_conversation_session(d)
    /\ UNCHANGED <<fn, threads, aivars>>

(* Spec: one session, every input text and analysis text, a few inputs *)
Start == StartUpTo(1)
Process == ProcessFrom(InputTexts, AnalysisTexts, MaxInputs)
End == EndSession

Init == InitManager
Next == Start \/ Process \/ End
Spec == Init /\ [][Next]_vars

(* SpecDeep: one session, the narrow alphabet, long enough to walk the
   default progression to its end *)
DeepProcess == ProcessFrom(FewTexts, FewAnalysisTexts, MaxDeepInputs)
DeepNext == Start \/ DeepProcess \/ End
SpecDeep == Init /\ [][DeepNext]_vars

(* SpecRecovery: one session, the narrow alphabet, every outcome of the three
   service calls of one input *)
RecoveryProcess == ProcessFrom(FewTexts, FewAnalysisTexts, MaxRecoveryInputs)
RecoveryNext == Start \/ RecoveryProcess \/ End
SpecRecovery == Init /\ [][RecoveryNext]_vars

(* SpecClock: one session under a clock of either resolution *)
MaxClockInputs == 2    \* inputs processed in one session (SpecClock)

InitClock ==
    /\ gemma_integration \in BOOLEAN
    /\ memory_retrieval \in BOOLEAN
    /\ current_session = NoSession
    /\ conversation_history = <<>>
    /\ started = 0
    /\ last = Idle
    /\ \E resolution \in {"fine", "coarse"} : clock = [time |-> 0, resolution |-> resolution]
    /\ fn = NoFn
    /\ store_gemma = gemma_integration
    /\ EmptyStore
    /\ threads = NoThreads
    /\ IdleAssistant

ClockProcess == ProcessFrom(FewTexts, FewAnalysisTexts, MaxClockInputs)
ClockNext == Start \/ ClockProcess \/ End
SpecClock == InitClock /\ [][ClockNext]_vars

(* SpecSessions: several sessions started, processed and ended on one manager *)
StartAny == StartUpTo(MaxStarts)
SessionProcess == ProcessFrom(FewTexts, FewAnalysisTexts, MaxSessionInputs)
SessionsNext == StartAny \/ SessionProcess \/ End
SpecSessions == Init /\ [][SessionsNext]_vars

----------------------------------------------------------------------------
(* SpecCalm: one session that receives inputs without a crisis keyword, without
   a topic keyword and of a cognitive load of at most 0.7 *)

MaxCalmInputs == 9     \* inputs processed in one session (SpecCalm)

\* "problem" is a complexity indicator only: the fallback load is 0.7
CalmTexts == {{"hello"}, {"problem"}}

\* no clarity hint (load 0.3), or the clarity 0.3 (load 0.7) and a negative tone
CalmAnalysisTexts == {SomeText, [words |-> {"negative"}, numbers |-> <<30>>]}

CalmProcess == ProcessFrom(CalmTexts, CalmAnalysisTexts, MaxCalmInputs)
CalmNext == Start \/ CalmProcess \/ End
SpecCalm == Init /\ [][CalmNext]_vars

----------------------------------------------------------------------------
(* SpecSettled: one session whose first input may carry a crisis keyword or a
   health or family topic, and whose later inputs carry no signal *)

MaxSignalInputs == 1    \* inputs that may carry a signal (SpecSettled)
MaxSettledInputs == 5   \* inputs processed in one session (SpecSettled)

SignalTexts == {{"want to die"}, {"doctor"}, {"family"}}

SignalProcess == ProcessFrom(SignalTexts \cup CalmTexts, CalmAnalysisTexts, MaxSignalInputs)

SettledProcess ==
    /\ Inputs >= MaxSignalInputs
    /\ ProcessFrom(CalmTexts, CalmAnalysisTexts, MaxSettledInputs)

SettledNext == Start \/ SignalProcess \/ SettledProcess \/ End
SpecSettled == Init /\ [][SettledNext]_vars

----------------------------------------------------------------------------
(* SpecNext: _determine_conversation_state applied to every current state,
   every analysis result and every turn count *)

Tones == {"positive", "negative", "anxious", "confused", "angry", "neutral"}
Loads == {-100, 30, 70, 71, 80}

AnalysisDicts ==
    [emotional_tone : Tones, cognitive_load : Loads,
     crisis_detected : BOOLEAN, topics_mentioned : SUBSET Topics]

\* a session whose current state is s and that holds n turns
SessionAt(s, n) ==
    [session_id |-> <<1, "A">>, patient_id |-> "A", ended |-> FALSE,
     turns |-> [i \in 1..n |-> [speaker |-> IF i % 2 = 1 THEN "assistant" ELSE "patient",
                                 timestamp |-> i]],
     states_visited |-> <<s>>]

InitNext ==
    /\ gemma_integration = TRUE
    /\ memory_retrieval = FALSE
    /\ \E s \in ConversationState, n \in 1..MaxFnTurns : current_session = SessionAt(s, n)
    /\ conversation_history = <<>>
    /\ started = 1
    /\ last = Idle
    /\ clock = FineClock
    /\ \E a \in AnalysisDicts : fn = [phase |-> "args", input_analysis |-> a]
    /\ store_gemma = FALSE
    /\ EmptyStore
    /\ threads = NoThreads
    /\ IdleAssistant

Determine ==
    /\ fn.phase = "args"
    /\ fn' = [phase |-> "done", input_analysis |-> fn.input_analysis,
              result |-> determine_conversation_state(get_current_state(current_session),
                                                      fn.input_analysis,
                                                      Len(current_session.turns))]
    /\ UNCHANGED <<convvars, memvars, threads, aivars>>

NextNext == Determine
SpecNext == InitNext /\ [][NextNext]_vars

----------------------------------------------------------------------------
(* SpecStore: one memory store, used by one caller at a time *)

MaxStores == 2         \* store calls on one store (SpecStore)
MaxRetrievals == 1     \* retrieve calls on one store (SpecStore)
MaxNow == 1            \* last instant at which the clock is advanced (SpecStore)
ShortStep == 1         \* instants the clock advances by: within a day,
WeekStep == 13         \* six days and a half,
MonthStep == 60        \* or thirty days

\* arguments of store_multimodal_memory: content (its words), its length in
\* characters, memory type, tags, media given or not, emotional context
MemoryInputs ==
    {[content |-> {"family", "dinner"}, length |-> 20, memory_type |-> "episodic",
      tags |-> {"family"}, has_media |-> FALSE, emotional_context |-> "positive"],
     [content |-> {"family", "doctor"}, length |-> 150, memory_type |-> "episodic",
      tags |-> {"family", "health"}, has_media |-> TRUE, emotional_context |-> "positive"],
     [content |-> {"medicine"}, length |-> 20, memory_type |-> "semantic",
      tags |-> {}, has_media |-> FALSE, emotional_context |-> "neutral"],
     [content |-> {"ar_alaila"}, length |-> 250, memory_type |-> "procedural",
      tags |-> {"work", "family"}, has_media |-> FALSE, emotional_context |-> "negative"]}

\* importance analysis texts the service may return
ImportanceTexts ==
    {[words |-> {"important"}, numbers |-> <<>>], [words |-> {}, numbers |-> <<150>>]}

\* query analysis texts the service may return
QueryAnalysisTexts ==
    {[words |-> {"personal", "positive"}, numbers |-> <<>>], SomeText}

Queries == {{}, {"family"}, {"ar_aila", "my"}, {"medicine", "work"}}
ContextTypes == {"general", "family", "therapeutic"}
ResultLimits == {1, 5}

StoreReplies(texts) == IF store_gemma THEN {RAISE} \cup texts ELSE {RAISE}

InitStore ==
    /\ gemma_integration = FALSE
    /\ memory_retrieval = TRUE
    /\ current_session = NoSession
    /\ conversation_history = <<>>
    /\ started = 0
    /\ last = Idle
    /\ clock = FineClock
    /\ fn = NoFn
    /\ store_gemma \in BOOLEAN
    /\ EmptyStore
    /\ threads = NoThreads
    /\ IdleAssistant

Store ==
    /\ Len(memory_database) < MaxStores
    /\ \E input \in MemoryInputs, reply \in StoreReplies(ImportanceTexts), disk \in DiskOutcomes :
           store_multimodal_memory(input, reply, disk)
    /\ UNCHANGED <<convvars, fn, threads, aivars>>

Retrieve ==
    /\ Len(context_history) < MaxRetrievals
    /\ \E query \in Queries, context_type \in ContextTypes, max_results \in ResultLimits,
          include_multimodal \in BOOLEAN, reply \in StoreReplies(QueryAnalysisTexts) :
           retrieve_contextual_memories(query, context_type, max_results, include_multimodal, reply)
    /\ UNCHANGED <<convvars, fn, threads, aivars>>

\* time passes between two calls
Tick ==
    /\ now < MaxNow
    /\ \E instants \in {ShortStep, WeekStep, MonthStep} : now' = now + instants
    /\ UNCHANGED <<convvars, fn, threads, aivars, store_gemma, storevars, mem_last>>

StoreNext == Store \/ Retrieve \/ Tick
SpecStore == InitStore /\ [][StoreNext]_vars

----------------------------------------------------------------------------
(* SpecAssociations: one caller stores memories one after another while time
   passes; the disk works *)

MaxAssociated == 2     \* store calls on one store (SpecAssociations)

AssociationStore ==
    /\ Len(memory_database) < MaxAssociated
    /\ \E input \in MemoryInputs, reply \in StoreReplies(ImportanceTexts) :
           store_multimodal_memory(input, reply, "ok")
    /\ UNCHANGED <<convvars, fn, threads, aivars>>

AssociationNext == AssociationStore \/ Tick
SpecAssociations == InitStore /\ [][AssociationNext]_vars

----------------------------------------------------------------------------
(* SpecRanking: memories are stored one after another while time passes, then
   one query is made *)

MaxRanked == 2         \* store calls before the query (SpecRanking)

RankedStore ==
    /\ Len(memory_database) < MaxRanked
    /\ context_history = <<>>
    /\ \E input \in MemoryInputs :
           store_multimodal_memory(input, RAISE, "ok")
    /\ UNCHANGED <<convvars, fn, threads, aivars>>

\* the query; fn keeps what it was asked and the store it was asked of
RankedRetrieve ==
    /\ context_history = <<>>
    /\ \E query \in Queries, context_type \in ContextTypes, max_results \in ResultLimits,
          include_multimodal \in BOOLEAN, reply \in StoreReplies(QueryAnalysisTexts) :
           /\ retrieve_contextual_memories(query, context_type, max_results, include_multimodal, reply)
           /\ fn' = [phase |-> "retrieved",
                     context_type |-> context_type,
                     fallback |-> ~(store_gemma /\ reply # RAISE),
                     query_analysis |-> analyze_query_context(store_gemma, query, context_type, reply),
                     max_results |-> max_results,
                     include_multimodal |-> include_multimodal,
                     db |-> memory_database,
                     today |-> now]
    /\ UNCHANGED <<convvars, threads, aivars>>

RankingNext == RankedStore \/ RankedRetrieve \/ Tick
SpecRanking == InitStore /\ [][RankingNext]_vars

----------------------------------------------------------------------------
(* SpecMutation: one caller stores memories, queries them and asks for
   suggestions and statistics, on a clock that may be coarse *)

MaxMutated == 2        \* store calls on one store (SpecMutation)
MaxReads == 1          \* retrieve calls on one store (SpecMutation)

SuggestionTexts == {[words |-> {"family", "dinner"}, numbers |-> <<>>], SomeText}

InitMutation ==
    /\ gemma_integration = FALSE
    /\ memory_retrieval = TRUE
    /\ current_session = NoSession
    /\ conversation_history = <<>>
    /\ started = 0
    /\ last = Idle
    /\ clock \in {[time |-> 0, resolution |-> r] : r \in {"fine", "coarse"}}
    /\ fn = NoFn
    /\ store_gemma \in BOOLEAN
    /\ EmptyStore
    /\ threads = NoThreads
    /\ IdleAssistant

\* the store calls made so far: each call adds one member to one cluster
stores_made ==
    SumSeq([k \in 1..Len(memory_clusters) |-> Len(memory_clusters[k].memories)])

MutationStore ==
    /\ stores_made < MaxMutated
    /\ \E input \in MemoryInputs :
           store_multimodal_memory(input, RAISE, "ok")
    /\ UNCHANGED <<convvars, fn, threads, aivars>>

MutationRetrieve ==
    /\ Len(context_history) < MaxReads
    /\ \E query \in Queries, context_type \in ContextTypes, max_results \in ResultLimits :
           retrieve_contextual_memories(query, context_type, max_results, TRUE, RAISE)
    /\ UNCHANGED <<convvars, fn, threads, aivars>>

MutationSuggest ==
    /\ \E context \in Queries, max_suggestions \in ResultLimits,
          reply \in StoreReplies(SuggestionTexts) :
           memory_suggestions(context, max_suggestions, reply)
    /\ UNCHANGED <<convvars, fn, threads, aivars>>

MutationStatistics ==
    /\ memory_statistics
    /\ UNCHANGED <<convvars, fn, threads, aivars>>

MutationNext ==
    MutationStore \/ MutationRetrieve \/ MutationSuggest \/ MutationStatistics \/ Tick
SpecMutation == InitMutation /\ [][MutationNext]_vars

----------------------------------------------------------------------------
(* SpecImportance: one memory is stored into an empty store, for every
   emotional context, length and content below and every analysis text the
   service may answer with *)

EmotionalContexts ==
    {"ar_jiddan_ijabi", "ar_ijabi", "ar_muhayid", "ar_salbi", "ar_jiddan_salbi",
     "very_positive", "positive", "neutral", "negative", "very_negative", "anxious"}

\* lengths in characters on both sides of the two thresholds
ContentLengths == {100, 101, 200, 201}

ImportantContents == SUBSET {"family", "work", "ar_alaila", "dinner"}

ScoredInputs ==
    {[content |-> content, length |-> length, memory_type |-> "episodic", tags |-> {},
      has_media |-> FALSE, emotional_context |-> emotional_context] :
        content \in ImportantContents, length \in ContentLengths,
        emotional_context \in EmotionalContexts}

\* analysis texts: with a number after an importance pattern (0, 0.85, 1, 1.5
\* and 8), or with importance and emotional keywords only
ScoredAnalysisTexts ==
    {[words |-> {}, numbers |-> <<n>>] : n \in {0, 85, 100, 150, 800}}
    \cup {[words |-> words, numbers |-> <<>>] :
             words \in SUBSET {"important", "essential", "critical", "vital", "significant", "happy"}}

\* the store; fn keeps what was stored and what the service answered
ImportanceStore ==
    /\ memory_database = <<>>
    /\ \E input \in ScoredInputs, reply \in StoreReplies(ScoredAnalysisTexts) :
           /\ store_multimodal_memory(input, reply, "ok")
           /\ fn' = [phase |-> "stored", input |-> input, reply |-> reply]
    /\ UNCHANGED <<convvars, threads, aivars>>

ImportanceNext == ImportanceStore
SpecImportance == InitStore /\ [][ImportanceNext]_vars

----------------------------------------------------------------------------
(* SpecClusters: similar memories are stored one after another into an empty
   store, within a day, under a clock of either resolution *)

MaxClustered == 5      \* store calls on one store (SpecClusters)

\* memories tagged family, of one emotional context, two words out of three or
\* all words in common
SimilarInputs ==
    {[content |-> content, length |-> 20, memory_type |-> "episodic",
      tags |-> {"family"}, has_media |-> FALSE, emotional_context |-> "positive"] :
        content \in {{"family", "dinner", "garden"}, {"family", "dinner", "park"}}}

\* the service fails, or analyses the memories about the garden
SimilarReplies(input) ==
    IF "garden" \in input.content
    THEN {RAISE, [words |-> {"important", "family"}, numbers |-> <<85>>]}
    ELSE {RAISE}

\* a store whose language service is attached
InitClusters ==
    /\ gemma_integration = FALSE
    /\ memory_retrieval = TRUE
    /\ current_session = NoSession
    /\ conversation_history = <<>>
    /\ started = 0
    /\ last = Idle
    /\ clock \in {[time |-> 0, resolution |-> r] : r \in {"fine", "coarse"}}
    /\ fn = NoFn
    /\ store_gemma = TRUE
    /\ EmptyStore
    /\ threads = NoThreads
    /\ IdleAssistant

ClusterStore ==
    /\ stores_made < MaxClustered
    /\ \E input \in SimilarInputs :
       \E reply \in SimilarReplies(input) :
           store_multimodal_memory(input, reply, "ok")
    /\ UNCHANGED <<convvars, fn, threads, aivars>>

\* the clock is advanced once, by less than a day
ClusterTick ==
    /\ now < ShortStep
    /\ now' = now + ShortStep
    /\ UNCHANGED <<convvars, fn, threads, aivars, store_gemma, storevars, mem_last>>

ClusterNext == ClusterStore \/ ClusterTick
SpecClusters == InitClusters /\ [][ClusterNext]_vars

----------------------------------------------------------------------------
(* SpecMembership: memories that fit one another to different degrees are
   stored one after another while time passes *)

MaxJoined == 3         \* store calls on one store (SpecMembership)

\* a family dinner, a dinner with the doctor, and a memory that shares a tag
\* and a word with each of them
MembershipInputs ==
    {[content |-> {"family", "dinner"}, length |-> 20, memory_type |-> "episodic",
      tags |-> {"family"}, has_media |-> FALSE, emotional_context |-> "positive"],
     [content |-> {"doctor", "dinner"}, length |-> 20, memory_type |-> "semantic",
      tags |-> {"health"}, has_media |-> FALSE, emotional_context |-> "neutral"],
     [content |-> {"family", "doctor"}, length |-> 20, memory_type |-> "episodic",
      tags |-> {"family", "health"}, has_media |-> FALSE, emotional_context |-> "positive"]}

MembershipStore ==
    /\ Len(memory_database) < MaxJoined
    /\ \E input \in MembershipInputs :
           store_multimodal_memory(input, RAISE, "ok")
    /\ UNCHANGED <<convvars, fn, threads, aivars>>

MembershipNext == MembershipStore \/ Tick
SpecMembership == InitStore /\ [][MembershipNext]_vars

----------------------------------------------------------------------------
(* SpecConcurrent: two threads call one memory store at the same time.  The
   store takes no lock (intelligent_memory.py has none), so the calls interleave
   between any two statements; a step below is one statement or one loop
   iteration.  A `for` loop over a dict creates an iterator that remembers the
   size of the dict, and every next() on it raises RuntimeError ("dictionary
   changed size during iteration") when the size is no longer the same. *)

Threads == {1, 2}

\* what no step of a thread changes
callervars == <<convvars, fn, store_gemma, now, mem_last, aivars>>

NoBest == <<0, <<0, 1>>>>
NoAnalysis == [keywords |-> {}, memory_types |-> {}, emotional_context |-> "none"]
Running == [raised |-> "none", returned |-> <<>>]

new_thread(call, input, reply) ==
    [call |-> call, pc |-> "start", input |-> input, reply |-> reply, node |-> 0,
     it |-> 0, size |-> 0, best |-> NoBest, cluster_id |-> 0, candidates |-> <<>>,
     query_analysis |-> NoAnalysis, outcome |-> Running]

\* the exception leaves the call: neither store_multimodal_memory nor
\* retrieve_contextual_memories catches it
raise(t, exception) ==
    threads' = [threads EXCEPT ![t].pc = "done", ![t].outcome = [raised |-> exception, returned |-> <<>>]]

\* intelligent_memory.py:64-90: the node is built and inserted
StoreInsert(t) ==
    /\ threads[t].call = "store" /\ threads[t].pc = "start"
    /\ UNCHANGED callervars
    /\ \E memory_id \in memory_ids(memory_database, threads[t].input.content, now,
                                   clock.resolution) :
       \E memory_node \in {new_memory_node(memory_id, store_gemma,
                                           threads[t].input, threads[t].reply, now)} :
          /\ memory_database' = put_memory(memory_database, memory_node)
          /\ threads' = [threads EXCEPT ![t].node = memory_node.id, ![t].pc = "associate"]
    /\ UNCHANGED <<association_graph, memory_clusters, retrieval_patterns, context_history>>

\* intelligent_memory.py:486: the iterator over memory_database.items() is created
StoreAssociateBegin(t) ==
    /\ threads[t].call = "store" /\ threads[t].pc = "associate"
    /\ UNCHANGED callervars
    /\ threads' = [threads EXCEPT ![t].pc = "associating", ![t].it = 1,
                                  ![t].size = Len(memory_database)]
    /\ UNCHANGED storevars

\* intelligent_memory.py:486-495: next() and one pass through the loop body
StoreAssociateNext(t) ==
    /\ threads[t].call = "store" /\ threads[t].pc = "associating"
    /\ UNCHANGED callervars
    /\ IF Len(memory_database) # threads[t].size
       THEN raise(t, "RuntimeError") /\ UNCHANGED association_graph
       ELSE IF threads[t].it > Len(memory_database)
            THEN /\ threads' = [threads EXCEPT ![t].pc = "cluster"]
                 /\ UNCHANGED association_graph
            ELSE /\ association_graph' =
                        associate(association_graph, NodeOf(memory_database, threads[t].node),
                                  memory_database[threads[t].it])
                 /\ threads' = [threads EXCEPT ![t].it = @ + 1]
    /\ UNCHANGED <<memory_database, memory_clusters, retrieval_patterns, context_history>>

\* intelligent_memory.py:534-537: the iterator over memory_clusters.values() is created
StoreClusterBegin(t) ==
    /\ threads[t].call = "store" /\ threads[t].pc = "cluster"
    /\ UNCHANGED callervars
    /\ threads' = [threads EXCEPT ![t].pc = "clustering", ![t].it = 1,
                                  ![t].size = Len(memory_clusters), ![t].best = NoBest]
    /\ UNCHANGED storevars

\* intelligent_memory.py:537-546: next() and one pass through the loop body; when
\* the loop ends with a best cluster, the memory joins it
StoreClusterNext(t) ==
    /\ threads[t].call = "store" /\ threads[t].pc = "clustering"
    /\ UNCHANGED callervars
    /\ IF Len(memory_clusters) # threads[t].size
       THEN raise(t, "RuntimeError") /\ UNCHANGED memory_clusters
       ELSE IF threads[t].it > Len(memory_clusters)
            THEN IF threads[t].best[1] # 0
                 THEN /\ memory_clusters' =
                             join_cluster(memory_database, memory_clusters, threads[t].best[1],
                                          NodeOf(memory_database, threads[t].node))
                      /\ threads' = [threads EXCEPT ![t].pc = "save"]
                 ELSE /\ threads' = [threads EXCEPT ![t].pc = "name_cluster"]
                      /\ UNCHANGED memory_clusters
            ELSE /\ threads' = [threads EXCEPT
                                    ![t].best = better_cluster(memory_database,
                                                    NodeOf(memory_database, threads[t].node),
                                                    memory_clusters, threads[t].it, threads[t].best),
                                    ![t].it = @ + 1]
                 /\ UNCHANGED memory_clusters
    /\ UNCHANGED <<memory_database, association_graph, retrieval_patterns, context_history>>

\* intelligent_memory.py:549: cluster_id = f"cluster_{len(self.memory_clusters)}"
StoreNameCluster(t) ==
    /\ threads[t].call = "store" /\ threads[t].pc = "name_cluster"
    /\ UNCHANGED callervars
    /\ threads' = [threads EXCEPT ![t].cluster_id = Len(memory_clusters), ![t].pc = "put_cluster"]
    /\ UNCHANGED storevars

\* intelligent_memory.py:550-558: self.memory_clusters[cluster_id] = new_cluster
StorePutCluster(t) ==
    /\ threads[t].call = "store" /\ threads[t].pc = "put_cluster"
    /\ UNCHANGED callervars
    /\ memory_clusters' =
           put_cluster(memory_clusters,
                       singleton_cluster(threads[t].cluster_id,
                                         NodeOf(memory_database, threads[t].node)))
    /\ threads' = [threads EXCEPT ![t].pc = "save"]
    /\ UNCHANGED <<memory_database, association_graph, retrieval_patterns, context_history>>

\* intelligent_memory.py:99-102: _save_memory_database and the return of the id;
\* an error of the loops inside the try block of the save is caught there
StoreSave(t) ==
    /\ threads[t].call = "store" /\ threads[t].pc = "save"
    /\ UNCHANGED callervars
    /\ \E disk \in DiskOutcomes :
          IF disk = "mkdir_error"
          THEN raise(t, "OSError")
          ELSE threads' = [threads EXCEPT ![t].pc = "done",
                              ![t].outcome = [raised |-> "none", returned |-> <<threads[t].node>>]]
    /\ UNCHANGED storevars

\* intelligent_memory.py:114: the query is analysed
RetrieveAnalyze(t) ==
    /\ threads[t].call = "retrieve" /\ threads[t].pc = "start"
    /\ UNCHANGED callervars
    /\ threads' = [threads EXCEPT
                      ![t].query_analysis =
                          analyze_query_context(store_gemma, threads[t].input.query,
                                                threads[t].input.context_type, threads[t].reply),
                      ![t].pc = "candidates"]
    /\ UNCHANGED storevars

\* intelligent_memory.py:421: the iterator over memory_database.values() is created
RetrieveScanBegin(t) ==
    /\ threads[t].call = "retrieve" /\ threads[t].pc = "candidates"
    /\ UNCHANGED callervars
    /\ threads' = [threads EXCEPT ![t].pc = "scanning", ![t].it = 1,
                                  ![t].size = Len(memory_database)]
    /\ UNCHANGED storevars

\* intelligent_memory.py:421-435: next() and one pass through the loop body
RetrieveScanNext(t) ==
    /\ threads[t].call = "retrieve" /\ threads[t].pc = "scanning"
    /\ UNCHANGED callervars
    /\ IF Len(memory_database) # threads[t].size
       THEN raise(t, "RuntimeError")
       ELSE IF threads[t].it > Len(memory_database)
            THEN threads' = [threads EXCEPT ![t].pc = "rank"]
            ELSE threads' = [threads EXCEPT
                                ![t].candidates =
                                    IF is_candidate(memory_database[threads[t].it],
                                                    threads[t].query_analysis)
                                    THEN Append(@, threads[t].it) ELSE @,
                                ![t].it = @ + 1]
    /\ UNCHANGED storevars

\* intelligent_memory.py:119-147: the candidates are scored, sorted and cut, the
\* statistics of the selected memories updated, and the selection returned
RetrieveFinish(t) ==
    /\ threads[t].call = "retrieve" /\ threads[t].pc = "rank"
    /\ UNCHANGED callervars
    /\ \E selected \in selections(memory_database, threads[t].candidates,
                                   threads[t].query_analysis, threads[t].input.max_results,
                                   threads[t].input.include_multimodal, now) :
       \E ids \in {[k \in 1..Len(selected) |-> memory_database[selected[k]].id]} :
          /\ memory_database' = touch_memories(memory_database, selected, now)
          /\ retrieval_patterns' =
                 [id \in MemIds |-> IF \E k \in 1..Len(ids) : ids[k] = id
                                    THEN retrieval_patterns[id] + 1
                                    ELSE retrieval_patterns[id]]
          /\ context_history' =
                 Append(context_history, [context_type |-> threads[t].input.context_type,
                                          retrieved_memories |-> ids])
          /\ threads' = [threads EXCEPT ![t].pc = "done",
                            ![t].outcome = [raised |-> "none", returned |-> ids]]
    /\ UNCHANGED <<association_graph, memory_clusters>>

\* the store before the two calls: empty, or holding one memory stored earlier
Preloaded ==
    {[db |-> <<>>, graph |-> [id \in MemIds |-> <<>>], clusters |-> <<>>]}
    \cup {[db |-> s.db, graph |-> s.graph, clusters |-> s.clusters] :
            s \in {stored(<<>>, [id \in MemIds |-> <<>>], <<>>, FALSE, input, RAISE, 0, 1) :
                      input \in MemoryInputs}}

ConcurrentInputs == {input \in MemoryInputs : input.memory_type \in {"episodic", "semantic"}}

RetrieveArgs ==
    [query : {{}, {"family"}}, context_type : {"general"}, max_results : {5},
     include_multimodal : {TRUE}]

StoreCalls ==
    {new_thread("store", input, reply) :
        input \in ConcurrentInputs, reply \in StoreReplies({[words |-> {"important"}, numbers |-> <<>>]})}

RetrieveCalls ==
    {new_thread("retrieve", args, reply) :
        args \in RetrieveArgs, reply \in StoreReplies({SomeText})}

InitConcurrent ==
    /\ gemma_integration = FALSE
    /\ memory_retrieval = TRUE
    /\ current_session = NoSession
    /\ conversation_history = <<>>
    /\ started = 0
    /\ last = Idle
    /\ clock = FineClock
    /\ fn = NoFn
    /\ store_gemma \in BOOLEAN
    /\ \E s \in Preloaded :
          /\ memory_database = s.db
          /\ association_graph = s.graph
          /\ memory_clusters = s.clusters
    /\ retrieval_patterns = [id \in MemIds |-> 0]
    /\ context_history = <<>>
    /\ now = 0
    /\ mem_last = MemIdle
    /\ \E c1 \in StoreCalls, c2 \in StoreCalls \cup RetrieveCalls :
          threads = [t \in Threads |-> IF t = 1 THEN c1 ELSE c2]
    /\ IdleAssistant

Step(t) ==
    \/ StoreInsert(t)
    \/ StoreAssociateBegin(t)
    \/ StoreAssociateNext(t)
    \/ StoreClusterBegin(t)
    \/ StoreClusterNext(t)
    \/ StoreNameCluster(t)
    \/ StorePutCluster(t)
    \/ StoreSave(t)
    \/ RetrieveAnalyze(t)
    \/ RetrieveScanBegin(t)
    \/ RetrieveScanNext(t)
    \/ RetrieveFinish(t)

ConcurrentNext == \E t \in Threads : Step(t)

SpecConcurrent == InitConcurrent /\ [][ConcurrentNext]_vars

----------------------------------------------------------------------------
(* SpecContext: one caller uses one context manager *)

MaxContextTime == 3    \* last reading of the clock at which a call reads it (SpecContext)

ContextTypes_ == {"user_input", "ai_response", "memory_recall", "mood_indicator", "topic",
                  "conversation"}

ContextData(context_type) ==
    IF context_type = "memory_recall" THEN {"correct", "wrong", "unmarked", "text"}
    ELSE IF context_type = "mood_indicator" THEN {"happy", "sad", "calm"}
    ELSE IF context_type = "topic" THEN {"family", "garden"}
    ELSE {"hello"}

NewContexts ==
    {<<<<"topics_discussed", <<>>>>>>,
     <<<<"memory_performance", <<>>>>, <<"mood_indicators", <<>>>>>>,
     <<<<"patient_name", <<>>>>>>}

\* the manager and the store are not used
InitContext ==
    /\ gemma_integration = FALSE
    /\ memory_retrieval = FALSE
    /\ current_session = NoSession
    /\ conversation_history = <<>>
    /\ started = 0
    /\ last = Idle
    /\ clock = FineClock
    /\ fn = NoFn
    /\ store_gemma = FALSE
    /\ EmptyStore
    /\ threads = NoThreads
    /\ IdleAssistant

notcontext == <<gemma_integration, memory_retrieval, current_session, conversation_history,
                started, last, fn, memvars, threads, realtime>>

ContextAdd ==
    /\ clock.time < MaxContextTime
    /\ \E context_type \in ContextTypes_ :
       \E data \in ContextData(context_type), timestamp \in ClockReadings(clock.time) :
           /\ context_manager' = add_context(context_manager, context_type, data, timestamp)
           /\ clock' = [clock EXCEPT !.time = timestamp]
           /\ ai_last' = [op |-> "add_context", raised |-> "none", returned |-> None]
    /\ UNCHANGED notcontext

ContextUpdate ==
    /\ \E new_context \in NewContexts :
           context_manager' = update_context(context_manager, new_context)
    /\ ai_last' = [op |-> "update_context", raised |-> "none", returned |-> None]
    /\ UNCHANGED <<notcontext, clock>>

ContextClear ==
    /\ clock.time < MaxContextTime
    /\ \E end_time \in ClockReadings(clock.time), disk \in {"ok", "write_error"} :
       \E reading \in ClockReadings(end_time) :
       \E cleared \in {clear_context(context_manager, end_time, disk, reading)} :
           /\ context_manager' = cleared.cm
           /\ clock' = [clock EXCEPT !.time = IF cleared.raised = "none" THEN reading ELSE end_time]
           /\ ai_last' = [op |-> "clear_context", raised |-> cleared.raised, returned |-> None]
    /\ UNCHANGED notcontext

ContextGet ==
    /\ \E got \in {get_current_context(context_manager)} :
           /\ context_manager' = got.cm
           /\ ai_last' = [op |-> "get_current_context", raised |-> got.raised,
                          returned |-> got.returned]
    /\ UNCHANGED <<notcontext, clock>>

ContextNext == ContextAdd \/ ContextUpdate \/ ContextClear \/ ContextGet
SpecContext == InitContext /\ [][ContextNext]_vars

----------------------------------------------------------------------------
(* SpecRealtime: one client of the real-time multimodal system, and the worker
   threads that generate_response starts.  The client and a worker interleave
   between the steps of the worker below. *)

MaxGenerations == 2    \* accepted generate_response calls (SpecRealtime)

BufferTexts == {"hello", ""}
Callbacks == {None, "callback"}
GenerationReplies ==
    {[raised |-> "Exception", returned |-> Absent], [raised |-> "none", returned |-> "reply"]}

notrealtime == <<gemma_integration, memory_retrieval, current_session, conversation_history,
                 started, last, fn, memvars, threads>>

RealtimeStart ==
    /\ clock.time < MaxContextTime
    /\ \E end_time \in ClockReadings(clock.time), disk \in {"ok", "write_error"} :
       \E reading \in ClockReadings(end_time) :
       \E call \in {start_session(realtime, context_manager, end_time, disk, reading)} :
           /\ realtime' = call.system
           /\ context_manager' = call.cm
           /\ clock' = [clock EXCEPT !.time = IF call.raised = "none" THEN reading ELSE end_time]
           /\ ai_last' = [op |-> "start_session", raised |-> call.raised, returned |-> call.returned]
    /\ UNCHANGED notrealtime

RealtimeEnd ==
    /\ clock.time < MaxContextTime
    /\ \E end_time \in ClockReadings(clock.time), disk \in {"ok", "write_error"} :
       \E call \in {end_session(realtime, context_manager, end_time, disk)} :
           /\ realtime' = call.system
           /\ context_manager' = call.cm
           /\ clock' = [clock EXCEPT !.time = IF realtime.session_active THEN end_time ELSE @]
           /\ ai_last' = [op |-> "end_session", raised |-> call.raised, returned |-> call.returned]
    /\ UNCHANGED notrealtime

RealtimeText ==
    /\ \E text \in BufferTexts :
       \E call \in {process_text(realtime, text)} :
           /\ realtime' = call.system
           /\ ai_last' = [op |-> "process_text", raised |-> "none", returned |-> call.returned]
    /\ UNCHANGED <<notrealtime, clock, context_manager>>

RealtimeImage ==
    /\ \E exists \in BOOLEAN :
       \E call \in {process_image(realtime, "photo.jpg", exists)} :
           /\ realtime' = call.system
           /\ ai_last' = [op |-> "process_image", raised |-> "none", returned |-> call.returned]
    /\ UNCHANGED <<notrealtime, clock, context_manager>>

RealtimeGenerate ==
    /\ Len(realtime.workers) < MaxGenerations
    /\ \E callback \in Callbacks :
       \E call \in {generate_response(realtime, callback)} :
           /\ realtime' = call.system
           /\ ai_last' = [op |-> "generate_response", raised |-> "none",
                          returned |-> call.returned]
    /\ UNCHANGED <<notrealtime, clock, context_manager>>

WorkerPrepare ==
    /\ \E w \in 1..Len(realtime.workers) :
           /\ realtime.workers[w].pc = "start"
           /\ realtime' = process_multimodal_prepare(realtime, context_manager, w)
    /\ UNCHANGED <<notrealtime, clock, context_manager, ai_last>>

WorkerGenerate ==
    /\ \E w \in 1..Len(realtime.workers), reply \in GenerationReplies :
           /\ realtime.workers[w].pc = "prompted"
           /\ realtime' = process_multimodal_generate(realtime, w, reply)
    /\ UNCHANGED <<notrealtime, clock, context_manager, ai_last>>

WorkerDeliver ==
    /\ \E w \in 1..Len(realtime.workers) :
           /\ realtime.workers[w].pc = "generated"
           /\ \E step \in {process_multimodal_deliver(realtime, context_manager, w)} :
                  /\ realtime' = step.system
                  /\ context_manager' = step.cm
    /\ UNCHANGED <<notrealtime, clock, ai_last>>

WorkerExcept ==
    /\ \E w \in 1..Len(realtime.workers) :
           /\ realtime.workers[w].pc = "except"
           /\ realtime' = process_multimodal_except(realtime, w)
    /\ UNCHANGED <<notrealtime, clock, context_manager, ai_last>>

WorkerFinally ==
    /\ \E w \in 1..Len(realtime.workers) :
           /\ realtime.workers[w].pc = "finally"
           /\ realtime' = process_multimodal_finally(realtime, w)
    /\ UNCHANGED <<notrealtime, clock, context_manager, ai_last>>

RealtimeNext ==
    \/ RealtimeStart \/ RealtimeEnd \/ RealtimeText \/ RealtimeImage \/ RealtimeGenerate
    \/ WorkerPrepare \/ WorkerGenerate \/ WorkerDeliver \/ WorkerExcept \/ WorkerFinally

SpecRealtime == InitContext /\ [][RealtimeNext]_vars

----------------------------------------------------------------------------
(* Claims about the conversation state machine *)

\* the transition rules of the state machine, in priority order, as
\* <<applies, target>> pairs; the last rule always applies
ProgressionPath ==
    <<GREETING, ASSESSMENT, COGNITIVE_TRAINING, MEMORY_EXERCISE, EMOTIONAL_SUPPORT, CLOSING>>

Successor(s) ==
    IF \E i \in 1..(Len(ProgressionPath) - 1) : ProgressionPath[i] = s
    THEN ProgressionPath[(CHOOSE i \in 1..(Len(ProgressionPath) - 1) : ProgressionPath[i] = s) + 1]
    ELSE s

Rules(s, a, n) ==
    << <<a.crisis_detected, CRISIS_INTERVENTION>>,
       <<"memory" \in a.topics_mentioned /\ s # MEMORY_EXERCISE, MEMORY_EXERCISE>>,
       <<"emotions" \in a.topics_mentioned /\ a.emotional_tone \in {"negative", "anxious"},
         EMOTIONAL_SUPPORT>>,
       <<"health" \in a.topics_mentioned, MEDICATION_REMINDER>>,
       <<"family" \in a.topics_mentioned, FAMILY_INTERACTION>>,
       <<a.cognitive_load > 70, ASSESSMENT>>,
       <<n > 6, Successor(s)>>,
       <<TRUE, s>> >>

FirstApplicable(rules) ==
    rules[CHOOSE i \in 1..Len(rules) : rules[i][1] /\ \A j \in 1..(i - 1) : ~rules[j][1]][2]

SignalFree(a) ==
    ~a.crisis_detected /\ a.topics_mentioned = {} /\ a.cognitive_load <= 70

HasCrisisKeyword(text) == \E kw \in crisis_indicators : Mentions(text, kw)

\* a step of process_patient_input(t, a, r) on a live session
ProcessStep(t, a, q, r) == current_session # NoSession /\ process_patient_input(t, a, q, r)

\* C1 (as claimed): every input whose text contains a crisis keyword, whatever
\* the current state and whichever analysis path is taken (service reply or
\* fallback), leaves the session in CrisisIntervention.
C1_CrisisPrecedence ==
    [][\A t \in InputTexts, a \in Replies(AnalysisTexts), q \in QueryReplies, r \in Replies({SomeText}) :
          (HasCrisisKeyword(t) /\ ProcessStep(t, a, q, r))
              => get_current_state(current_session)' = CRISIS_INTERVENTION]_vars

\* C2: the transition function returns exactly one state of the closed set,
\* namely the target of the first applicable rule in the priority order, and
\* leaves the session as it was.
C2_FirstApplicableRule ==
    fn.phase = "done" =>
        /\ fn.result \in ConversationState
        /\ fn.result = FirstApplicable(Rules(get_current_state(current_session),
                                              fn.input_analysis, Len(current_session.turns)))
        /\ \E s \in ConversationState, n \in 1..MaxFnTurns : current_session = SessionAt(s, n)

\* C2 witness: several rules apply at once (health and family topics, high
\* load, more than 6 turns) and the first of them decided
C2_Witness ==
    /\ fn.phase = "done"
    /\ ~fn.input_analysis.crisis_detected
    /\ fn.input_analysis.topics_mentioned = {"health", "family"}
    /\ fn.input_analysis.cognitive_load = 80
    /\ Len(current_session.turns) = 7
    /\ fn.result = MEDICATION_REMINDER

\* C3 (as claimed): once the current state is Closing, no input changes the
\* current state or appends to states_visited.
C3_ClosingTerminal ==
    [][(/\ current_session # NoSession
        /\ get_current_state(current_session) = CLOSING
        /\ current_session' # NoSession)
           => current_session'.states_visited = current_session.states_visited]_vars

\* C4 (as claimed): every consecutive pair recorded in states_visited is a
\* transition of the table of _define_state_transitions.
C4_LegalPath ==
    current_session # NoSession =>
        \A i \in 1..(Len(current_session.states_visited) - 1) :
            current_session.states_visited[i + 1]
                \in state_transitions(current_session.states_visited[i])

\* C5: for a signal-free analysis (no crisis, no topics, load <= 0.7) the next
\* state is the successor on the progression path when more than 6 turns are
\* recorded (states off the path are kept), and the current state otherwise.
C5_DefaultProgression ==
    (fn.phase = "done" /\ SignalFree(fn.input_analysis)) =>
        LET s == get_current_state(current_session)
        IN  IF Len(current_session.turns) > 6
            THEN /\ fn.result = Successor(s)
                 /\ s \in {MEDICATION_REMINDER, FAMILY_INTERACTION, CRISIS_INTERVENTION, CLOSING}
                        => fn.result = s
            ELSE fn.result = s

\* C5 witness: CognitiveTraining with 7 turns and no signals went to MemoryExercise
C5_Witness ==
    /\ fn.phase = "done"
    /\ SignalFree(fn.input_analysis)
    /\ get_current_state(current_session) = COGNITIVE_TRAINING
    /\ Len(current_session.turns) = 7
    /\ fn.result = MEMORY_EXERCISE

\* C8 (as claimed): a session of one patient that is live stays with the
\* manager, turns and visited states intact, when a session of another patient
\* is started: it is still the live session of its patient or it is in history.
C8_SessionsCoexist ==
    [][(/\ current_session # NoSession
        /\ current_session' # NoSession
        /\ current_session'.patient_id # current_session.patient_id)
           => \E i \in 1..Len(conversation_history') :
                 /\ conversation_history'[i].session_id = current_session.session_id
                 /\ conversation_history'[i].turns = current_session.turns
                 /\ conversation_history'[i].states_visited = current_session.states_visited]_vars

----------------------------------------------------------------------------
(* Claims about the session life cycle *)

Speakers(turns) == [i \in 1..Len(turns) |-> turns[i].speaker]
TwoTurns == <<"patient", "assistant">>

\* C11 (as claimed): a session that end_conversation_session has recorded is
\* in conversation_history once, ended, and is no longer the live session,
\* also when the persistence step has failed and the call is repeated.
C11_EndedOnce ==
    /\ \A i, j \in 1..Len(conversation_history) :
          conversation_history[i].session_id = conversation_history[j].session_id => i = j
    /\ \A i \in 1..Len(conversation_history) :
          /\ conversation_history[i].ended
          /\ conversation_history[i].session_id # current_session.session_id

\* C12: a process_patient_input made with no live session (none started, or
\* the last one ended) raises ValueError, an end_conversation_session made
\* with no live session returns the error result and raises nothing, and
\* neither changes the session slot, the history or the memory store.
C12_MissingSessionRejected ==
    [][(current_session = NoSession /\ last'.op \in {"process", "end"})
          => /\ last'.op = "process" => last'.raised = "ValueError"
             /\ last'.op = "end" => (last'.raised = "none" /\ last'.response = "error")
             /\ last'.calls = NoCalls
             /\ UNCHANGED <<current_session, conversation_history, started, clock>>
             /\ UNCHANGED memvars]_vars

\* C12 witness: an input was refused after a session had been started and ended
C12_Witness ==
    /\ last.op = "process"
    /\ last.raised = "ValueError"
    /\ current_session = NoSession
    /\ Len(conversation_history) = 1

OpeningAndPairs(n) ==
    [i \in 1..(2 * n + 1) |-> IF i % 2 = 1 THEN "assistant" ELSE "patient"]

\* C13: a started session holds one assistant turn and is in Greeting; an
\* input processed without error keeps the earlier turns as they were and
\* appends a patient turn and an assistant turn, so the speakers of a session
\* read assistant, (patient, assistant)^n after n inputs.
C13_TurnPattern ==
    [][/\ last'.op = "start"
           => /\ Speakers(current_session'.turns) = <<"assistant">>
              /\ current_session'.states_visited = <<GREETING>>
       /\ (last'.op = "process" /\ last'.raised = "none")
           => /\ SubSeq(current_session'.turns, 1, Len(current_session.turns))
                     = current_session.turns
              /\ Len(current_session'.turns) = Len(current_session.turns) + 2
              /\ Speakers(current_session'.turns)
                     = OpeningAndPairs((Len(current_session'.turns) - 1) \div 2)]_vars

\* C13 witness: two inputs were processed in a session
C13_Witness ==
    /\ current_session # NoSession
    /\ last.op = "process"
    /\ Speakers(current_session.turns)
           = <<"assistant", "patient", "assistant", "patient", "assistant">>

\* C14 (as claimed): in every session each turn carries a timestamp strictly
\* greater than that of the turn before it.
C14_StrictlyTimeOrdered ==
    current_session # NoSession =>
        \A i \in 1..(Len(current_session.turns) - 1) :
            current_session.turns[i + 1].timestamp > current_session.turns[i].timestamp

----------------------------------------------------------------------------
(* Claims about the memory store *)

Members(cluster) == {cluster.memories[k].id : k \in 1..Len(cluster.memories)}
InList(x, list) == \E k \in 1..Len(list) : list[k] = x
NoRepeat(list) == \A j, k \in 1..Len(list) : list[j] = list[k] => j = k
ClustersOf(id) == {i \in 1..Len(memory_clusters) : id \in Members(memory_clusters[i])}
NodeFields ==
    {"id", "timestamp", "content", "memory_type", "tags", "has_media", "emotional_context",
     "importance_score", "retrieval_count", "last_accessed", "hashed"}

\* C6 (as claimed): a retrieve that ran while a store was in flight has
\* returned, without an error, a list without repetition of stored memories
\* whose fields are all set.
C6_RetrieveDuringStore ==
    \A t \in Threads :
        (threads[t].call = "retrieve" /\ threads[t].pc = "done") =>
            /\ threads[t].outcome.raised = "none"
            /\ NoRepeat(threads[t].outcome.returned)
            /\ \A k \in 1..Len(threads[t].outcome.returned) :
                  /\ threads[t].outcome.returned[k] \in IdSet(memory_database)
                  /\ DOMAIN NodeOf(memory_database, threads[t].outcome.returned[k]) = NodeFields

\* C7 (as claimed): when two concurrent stores are over, both memories are in
\* memory_database, each is a member of exactly one cluster, no two clusters
\* have the same id, and the association lists are symmetric.
C7_StoresSerialized ==
    (\A t \in Threads : threads[t].call = "store" /\ threads[t].pc = "done") =>
        /\ \A t \in Threads : threads[t].node \in IdSet(memory_database)
        /\ \A t \in Threads : Cardinality(ClustersOf(threads[t].node)) = 1
        /\ \A i, j \in 1..Len(memory_clusters) :
              memory_clusters[i].id = memory_clusters[j].id => i = j
        /\ \A x, y \in MemIds :
              InList(y, association_graph[x]) <=> InList(x, association_graph[y])

\* C10 (as claimed): a store whose database file was not written (the
\* directory could not be created, or the write failed) raised nothing and
\* returned the id of a memory that is in memory_database and in a cluster.
C10_PersistenceFailureTolerated ==
    (mem_last.op = "store" /\ ~mem_last.saved) =>
        /\ mem_last.raised = "none"
        /\ Len(mem_last.returned) = 1
        /\ mem_last.returned[1] \in IdSet(memory_database)
        /\ ClustersOf(mem_last.returned[1]) # {}

\* how many times x occurs in list
RECURSIVE Occurrences(_, _)
Occurrences(x, list) ==
    IF list = <<>> THEN 0
    ELSE (IF Head(list) = x THEN 1 ELSE 0) + Occurrences(x, Tail(list))

\* C15: after any sequence of store operations the association edges are
\* symmetric and thresholded: b is in association_graph[a] exactly when a is in
\* association_graph[b], as often in one list as in the other; the strength of
\* two memories is the same value whichever of the two it is computed from; no
\* memory is associated with itself; ids that were never stored have no edge;
\* and two memories are joined only if the strength computed when the later
\* one was stored (it depends only on fields fixed at insertion) was above 0.3.
C15_AssociationsSymmetric ==
    /\ \A a \in MemIds \ IdSet(memory_database) : association_graph[a] = <<>>
    /\ \A a \in IdSet(memory_database) :
           /\ ~InList(a, association_graph[a])
           /\ \A b \in IdSet(memory_database) :
                  /\ Occurrences(b, association_graph[a]) = Occurrences(a, association_graph[b])
                  /\ calculate_association_strength(NodeOf(memory_database, a),
                                                    NodeOf(memory_database, b))
                       = calculate_association_strength(NodeOf(memory_database, b),
                                                        NodeOf(memory_database, a))
                  /\ (InList(b, association_graph[a]) /\ a > b) =>
                         above_association_threshold(NodeOf(memory_database, a),
                                                     NodeOf(memory_database, b))

\* the memory matches the query: its type is one of the query's memory types
\* and a keyword occurs in its content or in one of its tags, or the query has
\* no keyword
MatchesQuery(memory, query_analysis) ==
    /\ memory.memory_type \in query_analysis.memory_types
    /\ \/ query_analysis.keywords = {}
       \/ \E keyword \in query_analysis.keywords :
             \E text \in memory.content \cup memory.tags : WordIn(Lower(keyword), Lower(text))

\* m1 is not ranked below m2: its score is not lower, and when the two scores
\* are the same number the older of the two is not ahead
NotOutrankedBy(m1, m2, query_analysis, include_multimodal, today) ==
    /\ calculate_memory_relevance(m1, query_analysis, include_multimodal, today)
         >= calculate_memory_relevance(m2, query_analysis, include_multimodal, today)
    /\ same_double(m1, m2, query_analysis, include_multimodal, today)
         => m1.timestamp >= m2.timestamp

RankedResult(db, query_analysis, max_results, include_multimodal, today, ids) ==
    /\ Len(ids) <= max_results
    /\ NoRepeat(ids)
    /\ \A k \in 1..Len(ids) :
           /\ ids[k] \in IdSet(db)
           /\ MatchesQuery(NodeOf(db, ids[k]), query_analysis)
    /\ \A j, k \in 1..Len(ids) :
           j < k => NotOutrankedBy(NodeOf(db, ids[j]), NodeOf(db, ids[k]),
                                   query_analysis, include_multimodal, today)
    /\ \A k \in 1..Len(ids) :
       \A i \in 1..Len(db) :
           (MatchesQuery(db[i], query_analysis) /\ ~InList(db[i].id, ids))
               => NotOutrankedBy(NodeOf(db, ids[k]), db[i],
                                 query_analysis, include_multimodal, today)

\* C16: retrieve_contextual_memories with max_results = k returns at most k
\* memories, none twice, ordered by relevance score descending and, between
\* equal scores, by timestamp descending; every returned memory has a type in
\* the query's memory types and matches a keyword in its content or tags (or
\* the query has no keywords); no matching memory left out outranks a returned
\* one.
C16_RankedRetrieval ==
    fn.phase = "retrieved" =>
        RankedResult(fn.db, fn.query_analysis, fn.max_results, fn.include_multimodal,
                     fn.today, mem_last.returned)

\* a query with max_results = 1 was answered with the newer of two memories of
\* equal score stored on the same day, and the older one was left out
C16_Witness ==
    /\ fn.phase = "retrieved"
    /\ fn.max_results = 1
    /\ Len(fn.db) = 2
    /\ mem_last.returned = <<2>>
    /\ fn.db[1].timestamp < fn.db[2].timestamp
    /\ MatchesQuery(fn.db[1], fn.query_analysis)
    /\ same_double(fn.db[1], fn.db[2], fn.query_analysis, fn.include_multimodal, fn.today)

\* C17: memory nodes are mutated only by retrieve.  A retrieve (the step that
\* adds an entry to context_history) adds exactly 1 to retrieval_count and
\* refreshes last_accessed on every memory it returns and leaves every other
\* memory as it was; every other step (store, suggestions, statistics, time
\* passing) leaves every stored memory as it was; no step removes a memory, so
\* retrieval_count never decreases and the set of stored ids only grows.
C17_OnlyRetrieveMutates ==
    [][/\ IdSet(memory_database) \subseteq IdSet(memory_database')
       /\ \A id \in IdSet(memory_database) :
              LET before == NodeOf(memory_database, id)
                  after == NodeOf(memory_database', id)
              IN  /\ after.retrieval_count >= before.retrieval_count
                  /\ before.retrieval_count >= 0
                  /\ IF Len(context_history') > Len(context_history)
                        /\ InList(id, mem_last'.returned)
                     THEN after = [before EXCEPT !.retrieval_count = @ + 1,
                                                 !.last_accessed = now]
                     ELSE after = before]_vars

\* a token of the query (longer than 2 characters) occurs in the content of the
\* memory or in one of its tags
TokenOccurs(memory, query_analysis) ==
    \E keyword \in query_analysis.keywords :
        \E text \in memory.content \cup memory.tags : WordIn(Lower(keyword), Lower(text))

\* fewer than max_results other memories of db match the query
FewOthersMatch(db, i, query_analysis, max_results) ==
    Cardinality({j \in 1..Len(db) : j # i /\ MatchesQuery(db[j], query_analysis)}) < max_results

\* C18 (as claimed): after the store of a memory, a retrieve whose query holds
\* a token that occurs in the content or in a tag of the memory returns its id,
\* for every memory type and context type, provided fewer than max_results
\* other memories match.
C18_RoundTripAnyType ==
    fn.phase = "retrieved" =>
        \A i \in 1..Len(fn.db) :
            (/\ TokenOccurs(fn.db[i], fn.query_analysis)
             /\ FewOthersMatch(fn.db, i, fn.query_analysis, fn.max_results))
                => InList(fn.db[i].id, mem_last.returned)

\* C18 (amended): the same, for a memory whose type is one of the memory types
\* that the analysis of the query selects (for the context type, or from the
\* words of the service's reply).
C18_RoundTrip ==
    fn.phase = "retrieved" =>
        \A i \in 1..Len(fn.db) :
            (/\ TokenOccurs(fn.db[i], fn.query_analysis)
             /\ fn.db[i].memory_type \in fn.query_analysis.memory_types
             /\ FewOthersMatch(fn.db, i, fn.query_analysis, fn.max_results))
                => InList(fn.db[i].id, mem_last.returned)

\* of two stored memories that both hold a token of the query, the one whose
\* type the query selects came back and the other did not
C18_Witness ==
    /\ fn.phase = "retrieved"
    /\ Len(fn.db) = 2
    /\ \E i, j \in 1..2 :
           /\ TokenOccurs(fn.db[i], fn.query_analysis)
           /\ fn.db[i].memory_type \in fn.query_analysis.memory_types
           /\ InList(fn.db[i].id, mem_last.returned)
           /\ TokenOccurs(fn.db[j], fn.query_analysis)
           /\ fn.db[j].memory_type \notin fn.query_analysis.memory_types
           /\ ~InList(fn.db[j].id, mem_last.returned)

\* C19: every stored memory has an importance_score within [0, 1], whichever
\* path computed it; the score of the fallback heuristic (the service is absent
\* or its call failed) lies within [0.1, 1.0] for every emotional context,
\* content length and number of matched important keywords.
C19_ImportanceInRange ==
    \A i \in 1..Len(memory_database) :
        /\ memory_database[i].importance_score >= 0
        /\ memory_database[i].importance_score <= 100
        /\ (fn.phase = "stored" /\ (~store_gemma \/ fn.reply = RAISE))
              => memory_database[i].importance_score >= 10

\* the heuristic summed more than 1 (0.5 + 0.3 + 0.1 + 0.1 and keywords) and
\* the stored score is 1
C19_Witness ==
    /\ fn.phase = "stored"
    /\ fn.reply = RAISE
    /\ simple_importance_sum(fn.input.content, fn.input.length,
                             fn.input.emotional_context) > 100
    /\ memory_database[1].importance_score = 100

\* C20: when 5 memories tagged {family}, of the same emotional context, with
\* close timestamps and high mutual word overlap have been stored one after
\* another into an empty store, there is exactly one cluster, it holds all 5
\* memories, each once, and its strength is greater than 0.5.
C20_OneCluster ==
    stores_made = MaxClustered =>
        /\ Len(memory_clusters) = 1
        /\ Members(memory_clusters[1]) = IdSet(memory_database)
        /\ Len(memory_clusters[1].memories) = MaxClustered
        /\ FitGreater(memory_clusters[1].strength, <<500, 1>>)

\* the fifth memory has been stored, later in the day than the first; one of
\* the five carries the analysis of the service and another does not
C20_Witness ==
    /\ Len(memory_database) = MaxClustered
    /\ memory_database[1].timestamp < memory_database[MaxClustered].timestamp
    /\ \E i, j \in 1..MaxClustered :
           /\ memory_database[i].content # memory_database[i].hashed
           /\ memory_database[j].content = memory_database[j].hashed
           /\ memory_database[i].hashed # memory_database[j].hashed
    /\ Len(memory_clusters) = 1
    /\ Len(memory_clusters[1].memories) = MaxClustered

\* the positions at which the id occurs in the member lists of the clusters
Memberships(clusters, id) ==
    {<<i, k>> \in (1..Len(clusters)) \X (1..MaxMemories) :
        k <= Len(clusters[i].memories) /\ clusters[i].memories[k].id = id}

\* C29 (as claimed): every store, one after another from an empty store on,
\* returns an id that was not in memory_database and adds one memory to it;
\* after it every stored memory is a member of exactly one cluster, every
\* cluster has a member, no two clusters have the same id and every cluster
\* strength is in [0, 1].
C29_StoreInvariants ==
    [][(mem_last'.op = "store" /\ memory_clusters' # memory_clusters) =>
          /\ Len(memory_database') = Len(memory_database) + 1
          /\ \A k \in 1..Len(mem_last'.returned) :
                 mem_last'.returned[k] \notin IdSet(memory_database)
          /\ \A id \in IdSet(memory_database') :
                 Cardinality(Memberships(memory_clusters', id)) = 1
          /\ \A i \in 1..Len(memory_clusters') :
                 /\ Len(memory_clusters'[i].memories) >= 1
                 /\ memory_clusters'[i].strength[1] >= 0
                 /\ memory_clusters'[i].strength[1] <= 1000 * memory_clusters'[i].strength[2]
                 /\ \A j \in 1..Len(memory_clusters') :
                        memory_clusters'[i].id = memory_clusters'[j].id => i = j]_vars

----------------------------------------------------------------------------
(* Claims about the recovery from service failures *)


\* a call of the service was made for this input and raised
AnalysisFailed(a) == gemma_integration /\ a = RAISE
GenerationFailed(r) == gemma_integration /\ r = RAISE
QueryFailed(t, a, q) ==
    /\ retrieval_attempted(gemma_integration, memory_retrieval,
                           analyze_patient_input(gemma_integration, t, a))
    /\ store_gemma /\ q = RAISE

\* C9 (as claimed): whenever a service call of process_patient_input fails
\* (input analysis, query analysis or response generation), the response comes
\* from the template table, both turns are appended, nothing is raised and no
\* call is made more than twice.
C9_FailuresAnsweredByTemplate ==
    [][\A t \in FewTexts, a \in Replies(FewAnalysisTexts), q \in QueryReplies, r \in Replies({SomeText}) :
          (/\ ProcessStep(t, a, q, r)
           /\ AnalysisFailed(a) \/ QueryFailed(t, a, q) \/ GenerationFailed(r))
              => /\ last'.response = template_key(get_current_state(current_session'))
                 /\ last'.raised = "none"
                 /\ SubSeq(current_session'.turns, 1, Len(current_session.turns))
                        = current_session.turns
                 /\ Speakers(current_session'.turns) = Speakers(current_session.turns) \o TwoTurns
                 /\ last'.calls.analysis <= 2 /\ last'.calls.query <= 2
                 /\ last'.calls.generation <= 2]_vars

\* C9 (amended): every input processed on a live session raises nothing and
\* appends the patient turn and the assistant turn; each service call is made
\* at most once (no retry); the response comes from the template table of the
\* new state exactly when the service is absent or the generation call fails,
\* and is the generated text otherwise, also when the input analysis or the
\* query analysis has failed.
C9_FailuresRecovered ==
    [][\A t \in FewTexts, a \in Replies(FewAnalysisTexts), q \in QueryReplies, r \in Replies({SomeText}) :
          ProcessStep(t, a, q, r)
              => /\ last'.raised = "none"
                 /\ SubSeq(current_session'.turns, 1, Len(current_session.turns))
                        = current_session.turns
                 /\ Speakers(current_session'.turns) = Speakers(current_session.turns) \o TwoTurns
                 /\ last'.calls.analysis <= 1 /\ last'.calls.query <= 1
                 /\ last'.calls.generation <= 1
                 /\ IF r = RAISE
                    THEN last'.response = template_key(get_current_state(current_session'))
                    ELSE last'.response = "generated"]_vars

\* C9 witness: the generation call was made and failed, and the template of
\* the new state answered
C9_Witness ==
    /\ last.op = "process"
    /\ gemma_integration
    /\ last.calls.generation = 1
    /\ last.raised = "none"
    /\ last.response = template_key(get_current_state(current_session))

\* C23: when the analysis takes the fallback path (no service, or the service
\* call raises), the topics of the analysis are the labels whose keyword list
\* matches the input, and an input that the service-analysed path would answer
\* with MedicationReminder leaves the session in MedicationReminder.
C23_FallbackTopics ==
    [][\A t \in InputTexts, q \in QueryReplies, r \in Replies({SomeText}) :
          ProcessStep(t, RAISE, q, r) =>
              /\ analyze_patient_input(gemma_integration, t, RAISE).topics_mentioned = TopicsOf(t)
              /\ determine_conversation_state(get_current_state(current_session),
                                              parse_patient_analysis(SomeText, t),
                                              Len(current_session.turns)) = MEDICATION_REMINDER
                     => get_current_state(current_session)' = MEDICATION_REMINDER]_vars

\* C24: the cognitive load of the patient turn that an input appends is in
\* [0, 1] for every analysis text of the service, whatever number follows the
\* clarity word, and is 0.3 or 0.7 on the fallback path.
C24_LoadInRange ==
    [][\A t \in InputTexts, a \in Replies(AnalysisTexts), q \in QueryReplies, r \in Replies({SomeText}) :
          ProcessStep(t, a, q, r) =>
              LET cognitive_load == analyze_patient_input(gemma_integration, t, a).cognitive_load
              IN  /\ cognitive_load \in 0..100
                  /\ a = RAISE => cognitive_load \in {30, 70}]_vars

\* C27: in a session that has received signal-free inputs only, the states
\* visited are the progression path up to Greeting for the first three inputs,
\* one state further for each input from the fourth on, and up to Closing from
\* the eighth input on; no two consecutive entries are equal.
C27_CalmProgression ==
    current_session # NoSession =>
        /\ current_session.states_visited =
               SubSeq(ProgressionPath, 1, Min(Len(ProgressionPath), Max(1, Inputs - 2)))
        /\ \A i \in 1..(Len(current_session.states_visited) - 1) :
               current_session.states_visited[i] # current_session.states_visited[i + 1]

\* the ninth input has been processed, on both analysis paths over the session,
\* and the session is in Closing since the eighth
C27_Witness ==
    /\ current_session # NoSession
    /\ Inputs = 9
    /\ get_current_state(current_session) = CLOSING
    /\ Len(current_session.states_visited) = 6

\* the states that the progression table does not mention as a source
NoExitStates == {CRISIS_INTERVENTION, MEDICATION_REMINDER, FAMILY_INTERACTION}

\* C28: in CrisisIntervention, MedicationReminder and FamilyInteraction an
\* input without a crisis, without a topic and of a cognitive load of at most
\* 0.7 leaves the state of the session unchanged, whatever the number of turns.
C28_NoDefaultExit ==
    [][\A t \in SignalTexts \cup CalmTexts, a \in Replies(CalmAnalysisTexts),
          q \in QueryReplies, r \in Replies({SomeText}) :
          /\ ProcessStep(t, a, q, r)
          /\ get_current_state(current_session) \in NoExitStates
          /\ SignalFree(analyze_patient_input(gemma_integration, t, a))
          => get_current_state(current_session)' = get_current_state(current_session)]_vars

\* a session that entered one of the three states with its first input and
\* has received four inputs without a signal since, at 3, 5, 7 and 9 turns: on
\* both sides of the progression threshold
C28_Witness ==
    /\ current_session # NoSession
    /\ Inputs = 5
    /\ get_current_state(current_session) \in NoExitStates

\* the table of context types that the claim C22 gives
TableOfC22(context_type) ==
    CASE context_type \in {"personal", "family"} -> {"episodic"}
      [] context_type = "work" -> {"procedural", "semantic"}
      [] context_type = "health" -> {"semantic", "episodic"}
      [] OTHER -> {"episodic", "semantic", "procedural"}

\* a keyword of the query is found in the content or in a tag of the memory, or
\* the query has no keyword
MatchesKeywords(memory, query_analysis) ==
    \/ query_analysis.keywords = {}
    \/ \E keyword \in query_analysis.keywords :
          \E text \in memory.content \cup memory.tags : WordIn(Lower(keyword), Lower(text))

\* C22: the fallback query analysis gives the memory types personal/family ->
\* {episodic}, work -> {procedural, semantic}, health -> {semantic, episodic} and
\* all three types for every other context type, "therapeutic" among them; so
\* under a context type outside the table a procedural memory that matches a
\* keyword of the query is a candidate.
C22_FallbackTable ==
    (fn.phase = "retrieved" /\ fn.fallback) =>
        /\ fn.query_analysis.memory_types = TableOfC22(fn.context_type)
        /\ fn.context_type \notin {"personal", "family", "work", "health"} =>
               \A i \in 1..Len(fn.db) :
                   (fn.db[i].memory_type = "procedural" /\ MatchesKeywords(fn.db[i], fn.query_analysis))
                       => is_candidate(fn.db[i], fn.query_analysis)

\* the mean of the strengths of the pairs of members, each pair taken from the
\* member that joined first, as <<sum, pairs>>
PairwiseMean(members) ==
    LET n == Len(members)
        first(p) == ((p - 1) \div n) + 1
        second(p) == ((p - 1) % n) + 1
    IN  <<SumSeq([p \in 1..(n * n) |->
                    IF first(p) < second(p)
                    THEN calculate_association_strength(members[first(p)], members[second(p)])
                    ELSE 0]),
          (n * (n - 1)) \div 2>>

SameMean(mean1, mean2) == mean1[1] * mean2[2] = mean2[1] * mean1[2]

\* the mean of the strengths between a memory and the members of a cluster
MeanTo(memory, cluster) ==
    <<SumSeq([k \in 1..Len(cluster.memories) |->
                 calculate_association_strength(memory, cluster.memories[k])]),
      Len(cluster.memories)>>

\* C25: a store adds the new memory to the cluster to which its mean
\* association strength is highest, if that mean is strictly greater than 0.5,
\* and the strength of that cluster becomes the mean pairwise strength of its
\* members; otherwise it creates exactly one cluster, which holds the new memory
\* alone.  No other cluster changes.
C25_MembershipRule ==
    [][Len(memory_database') = Len(memory_database) + 1 =>
          LET new_memory == memory_database'[Len(memory_database')]
              n == Len(memory_clusters)
              highest == {k \in 1..n :
                             /\ \A j \in 1..n : ~FitGreater(MeanTo(new_memory, memory_clusters[j]),
                                                              MeanTo(new_memory, memory_clusters[k]))
                             /\ FitGreater(MeanTo(new_memory, memory_clusters[k]), <<500, 1>>)}
          IN  IF highest # {}
              THEN /\ Len(memory_clusters') = n
                   /\ \E k \in highest :
                         /\ memory_clusters'[k].id = memory_clusters[k].id
                         /\ memory_clusters'[k].memories =
                                Append(memory_clusters[k].memories, member_of(new_memory))
                         /\ SameMean(memory_clusters'[k].strength,
                                     PairwiseMean(memory_clusters'[k].memories))
                         /\ \A j \in (1..n) \ {k} : memory_clusters'[j] = memory_clusters[j]
              ELSE /\ Len(memory_clusters') = n + 1
                   /\ memory_clusters'[n + 1].memories = <<member_of(new_memory)>>
                   /\ \A j \in 1..n : memory_clusters'[j] = memory_clusters[j]]_vars

\* the third memory fits both clusters and has joined the second one, to which
\* its mean strength is higher
C25_Witness ==
    /\ Len(memory_database) = 3
    /\ Len(memory_clusters) = 2
    /\ Len(memory_clusters[1].memories) = 1
    /\ Members(memory_clusters[2]) = {memory_database[2].id, memory_database[3].id}
    /\ FitGreater(MeanTo(memory_database[3], memory_clusters[1]), <<500, 1>>)

\* C26: the association strength of two stored memories is the sum of the tag
\* overlap |tags1 \cap tags2| / max(|tags1|, |tags2|) weighted 0.3, of 0.3 for
\* equal emotional contexts, of 0.3, 0.2 or 0.1 for less than 7, 30 or 365 days
\* between them, and of the word overlap ratio weighted 0.3; it is the same in
\* both directions, and its tag term is at most 0.3.
C26_StrengthTerms ==
    \A i, j \in 1..Len(memory_database) : i # j =>
        LET memory1 == memory_database[i]
            memory2 == memory_database[j]
            terms == association_terms(memory1, memory2)
            most == Max(Cardinality(memory1.tags), Cardinality(memory2.tags))
            days == Abs(timedelta_days(memory1.timestamp, memory2.timestamp))
            words1 == LowerText(memory1.content)
            words2 == LowerText(memory2.content)
        IN  /\ terms[1] * most = 300 * Cardinality(memory1.tags \cap memory2.tags)
            /\ terms[1] <= 300
            /\ terms[2] = IF memory1.emotional_context = memory2.emotional_context THEN 300 ELSE 0
            /\ terms[3] = IF days < 7 THEN 300 ELSE IF days < 30 THEN 200
                          ELSE IF days < 365 THEN 100 ELSE 0
            /\ (words1 # {} /\ words2 # {}) =>
                   terms[4] * Max(Cardinality(words1), Cardinality(words2))
                       = 300 * Cardinality(words1 \cap words2)
            /\ calculate_association_strength(memory1, memory2) = Min(1000, SumSeq(terms))
            /\ calculate_association_strength(memory1, memory2)
                   = calculate_association_strength(memory2, memory1)

----------------------------------------------------------------------------
(* Claims about the context manager *)

\* C21: get_current_context is idempotent and free of side effects: a call
\* leaves the current session, the conversation history and every other field
\* of the context manager as they were, and a call that directly follows
\* another call has the outcome of that call (the same dict returned, or the
\* same exception raised).
C21_GetIdempotent ==
    [][ai_last'.op = "get_current_context" =>
          /\ context_manager' = context_manager
          /\ ai_last.op = "get_current_context" => ai_last' = ai_last]_vars

\* a context has been returned for a session that holds a topic, a mood and a
\* marked recall
C21_Witness ==
    /\ ai_last.op = "get_current_context"
    /\ ai_last.raised = "none"
    /\ ai_last.returned.recent_topics # <<>>
    /\ ai_last.returned.mood_trend # "neutral"
    /\ ai_last.returned.memory_performance.status # "no_data"


----------------------------------------------------------------------------
(* Claims about the real-time multimodal system *)

\* C30 (as claimed): after start_session, a worker of an accepted
\* generate_response for which the generation service returned a response ends
\* with the response callback called with that response, the text, image and
\* audio buffers reset and is_processing False; a generate_response made while
\* is_processing is True is rejected, so at most one worker runs at a time.
C30_ResponseDelivered ==
    [][/\ \A w \in 1..Len(realtime.workers) :
              (/\ realtime.workers[w].response # Absent
               /\ realtime.workers[w].pc # "done"
               /\ realtime'.workers[w].pc = "done") =>
                  /\ ~realtime'.is_processing
                  /\ realtime.on_response # None =>
                         InList(realtime.workers[w].response, realtime'.responses)
                  /\ realtime'.text_buffer = ""
                  /\ realtime'.image_path = None
                  /\ realtime'.audio_path = None
       /\ (ai_last'.op = "generate_response" /\ realtime.is_processing
              /\ ai_last' # ai_last) => ai_last'.returned = FALSE
       /\ Cardinality({w \in 1..Len(realtime'.workers) : realtime'.workers[w].pc # "done"}) <= 1]_vars

====
